---- MODULE Spec2Model ----
(***************************************************************************)
(* Request construction and response reconciliation of the Sift Science    *)
(* client (src/src/client.rs).                                             *)
(*                                                                         *)
(* The client is generic over its transport (trait HttpClient).  Every     *)
(* endpoint method is one action: it builds the request, hands it to the   *)
(* transport, receives the transport's result and reconciles it into the   *)
(* value returned to the caller.  The transport's result is an input of    *)
(* the action.  The two transport implementations of the crate (awc and    *)
(* reqwest) are modelled separately as actions over HTTP replies.          *)
(***************************************************************************)
EXTENDS Integers, Sequences, FiniteSets, TLC

VARIABLES
    api_key,      \* Client.api_key
    account_id,   \* Client.account_id : Option<String>
    origin,       \* Client.origin
    op,           \* the method that ran last
    sent,         \* transport invocations issued by that method, in order
    http,         \* HTTP reply seen by a transport implementation
    decodes,      \* number of JSON decodes of the reply body by the transport
    reply,        \* what the transport returned to the method
    result,       \* what the method returned to its caller
    args,         \* the arguments that method was called with
    query,        \* query pairs a transport implementation put on the URL
    auth,         \* basic-auth credentials a transport implementation set
    inflight      \* the calls in progress on the client, one per caller

vars ==
    <<api_key, account_id, origin, op, sent, http, decodes, reply, result,
      args, query, auth, inflight>>

client == <<api_key, account_id, origin>>

-----------------------------------------------------------------------------
(* Bounds of the model *)

\* remote status codes range over 0..MaxStatus
MaxStatus == 2
\* score values range over 1..MaxScore
MaxScore == 2
\* at most MaxCalls calls are in progress on one client at a time
MaxCalls == 2
\* user ids to encode have up to MaxIdLen characters
MaxIdLen == 2

-----------------------------------------------------------------------------
(* Option<T>, Result<T, Error> and the Error enum *)

None == <<>>
Some(x) == <<x>>

\* Error::Server(String)
ServerError(m) == [kind |-> "Server", msg |-> m]
\* Error::Request { status, error_message }
RequestError(s, m) == [kind |-> "Request", status |-> s, error_message |-> m]
\* Error::Client { error, description, issues }
ClientError(e, d) == [kind |-> "Client", error |-> e, description |-> d]

Ok(v) == [ok |-> TRUE, val |-> v]
Err(e) == [ok |-> FALSE, err |-> e]

\* the unit value ()
Unit == "()"

-----------------------------------------------------------------------------
(* JSON values (serde_json::Value) *)

JNull == [j |-> "null"]
JBool(b) == [j |-> "bool", b |-> b]
JNum(n) == [j |-> "number", n |-> n]
JStr(s) == [s |-> s, j |-> "string"]
JArr(a) == [j |-> "array", a |-> a]
JObj(f) == [j |-> "object", f |-> f]

\* a function with an empty domain: a JSON object without keys
NoFields == [k \in {} |-> JNull]
\* the one-key object part {k: v}, or nothing when the key is left out
Field(k, o) == IF o = None THEN NoFields ELSE (k :> o[1])

IsObj(v) == v.j = "object"
Has(v, k) == IsObj(v) /\ k \in DOMAIN v.f
\* an Option<T> field is None when the key is missing or null
Missing(v, k) == ~Has(v, k) \/ v.f[k] = JNull
IsNum(v) == v.j = "number"
IsStr(v) == v.j = "string"

\* serde's message of a failed decode, as Error::Server (From<serde_json::Error>)
DecodeFailure == ServerError("json decode error")


-----------------------------------------------------------------------------
(* Typed responses decoded from JSON (serde derive(Deserialize)) *)

ScoreKeys ==
    {"payment_abuse", "promotion_abuse", "account_abuse", "account_takeover",
     "content_abuse"}

\* AbuseScoreReason { name: String, value: String, details: Option<Value> }
AbuseScoreReasonOk(v) ==
    /\ Has(v, "name") /\ IsStr(v.f["name"])
    /\ Has(v, "value") /\ IsStr(v.f["value"])

\* AbuseScore { score: f32, reasons: Vec<AbuseScoreReason> }
AbuseScoreOk(v) ==
    /\ Has(v, "score") /\ IsNum(v.f["score"])
    /\ Has(v, "reasons") /\ v.f["reasons"].j = "array"
    /\ \A i \in DOMAIN v.f["reasons"].a : AbuseScoreReasonOk(v.f["reasons"].a[i])

AbuseScoreFromValue(v) ==
    [score |-> v.f["score"].n,
     reasons |-> [i \in DOMAIN v.f["reasons"].a |->
                    [name |-> v.f["reasons"].a[i].f["name"].s,
                     value |-> v.f["reasons"].a[i].f["value"].s]]]

\* Scores: five Option<AbuseScore> fields
ScoresOk(v) ==
    /\ IsObj(v)
    /\ \A k \in ScoreKeys : Missing(v, k) \/ AbuseScoreOk(v.f[k])

ScoresFromValue(v) ==
    [k \in ScoreKeys |->
        IF Missing(v, k) THEN None ELSE Some(AbuseScoreFromValue(v.f[k]))]

\* ScoreResponse { status: i32, error_message: String, scores: Option<Scores>,
\*                 entity_id, entity_type: Option<String>, .. }
ScoreResponseOk(v) ==
    /\ Has(v, "status") /\ IsNum(v.f["status"])
    /\ Has(v, "error_message") /\ IsStr(v.f["error_message"])
    /\ Missing(v, "scores") \/ ScoresOk(v.f["scores"])
    /\ Missing(v, "entity_id") \/ IsStr(v.f["entity_id"])
    /\ Missing(v, "entity_type") \/ IsStr(v.f["entity_type"])

ScoreResponseFromValue(v) ==
    [status |-> v.f["status"].n,
     error_message |-> v.f["error_message"].s,
     scores |-> IF Missing(v, "scores") THEN None
                ELSE Some(ScoresFromValue(v.f["scores"])),
     entity_id |-> IF Missing(v, "entity_id") THEN None
                   ELSE Some(v.f["entity_id"].s),
     entity_type |-> IF Missing(v, "entity_type") THEN None
                     ELSE Some(v.f["entity_type"].s)]

\* EventResponse { status: i32, error_message: String,
\*                 score_response: Option<ScoreResponse> }
EventResponseOk(v) ==
    /\ Has(v, "status") /\ IsNum(v.f["status"])
    /\ Has(v, "error_message") /\ IsStr(v.f["error_message"])
    /\ Missing(v, "score_response") \/ ScoreResponseOk(v.f["score_response"])

EventResponseFromValue(v) ==
    [status |-> v.f["status"].n,
     error_message |-> v.f["error_message"].s,
     score_response |-> IF Missing(v, "score_response") THEN None
                        ELSE Some(ScoreResponseFromValue(v.f["score_response"]))]

-----------------------------------------------------------------------------
(* Constants of the client *)

SIFT_ORIGIN == "https://api.sift.com"
\* Duration::from_secs(2), in seconds
DEFAULT_TIMEOUT == 2

-----------------------------------------------------------------------------
(* Client::track *)

\* TrackMatch with the status arm tried before the scores arm
TrackMatchStatusFirst(er) ==
    IF er.status # 0
    THEN Err(RequestError(er.status, er.error_message))
    ELSE IF er.score_response # None /\ er.score_response[1].status # 0
    THEN Err(RequestError(er.score_response[1].status,
                          er.score_response[1].error_message))
    ELSE IF er.score_response # None /\ er.score_response[1].scores # None
    THEN Ok(er.score_response[1].scores)
    ELSE Ok(None)

\* TrackMatch without the second alternative of the or-pattern
TrackMatchOuterOnly(er) ==
    IF er.score_response # None /\ er.score_response[1].scores # None
    THEN Ok(er.score_response[1].scores)
    ELSE IF er.status # 0
    THEN Err(RequestError(er.status, er.error_message))
    ELSE Ok(None)

\* TrackMatch reporting the outer message with the inner status
TrackMatchOuterMessage(er) ==
    IF er.score_response # None /\ er.score_response[1].scores # None
    THEN Ok(er.score_response[1].scores)
    ELSE IF er.status # 0
    THEN Err(RequestError(er.status, er.error_message))
    ELSE IF er.score_response # None /\ er.score_response[1].status # 0
    THEN Err(RequestError(er.score_response[1].status, er.error_message))
    ELSE Ok(None)

\* the match on the decoded EventResponse: the arms are tried in order, and the
\* guard of the or-pattern once per alternative, left (outer) to right (inner)
TrackMatch(er) ==
    IF er.score_response # None /\ er.score_response[1].scores # None
    THEN Ok(er.score_response[1].scores)
    ELSE IF er.status # 0
    THEN Err(RequestError(er.status, er.error_message))
    ELSE IF er.score_response # None /\ er.score_response[1].status # 0
    THEN Err(RequestError(er.score_response[1].status,
                          er.score_response[1].error_message))
    ELSE Ok(None)

\* TrackReturn treating a missing body as rescore_user does
TrackReturnBodyRequired(r) ==
    IF ~r.ok THEN r
    ELSE IF r.val = None
    THEN Err(ServerError("Expected a score, but received empty server response"))
    ELSE IF ~EventResponseOk(r.val[1]) THEN Err(DecodeFailure)
    ELSE TrackMatch(EventResponseFromValue(r.val[1]))

\* what track returns for the transport's result r of its post
TrackReturn(r) ==
    IF ~r.ok THEN r
    ELSE IF r.val = None THEN Ok(None)
    ELSE IF ~EventResponseOk(r.val[1]) THEN Err(DecodeFailure)
    ELSE TrackMatch(EventResponseFromValue(r.val[1]))

\* the request handed to HttpClient::post
PostRequest(url, query_params, body, timeout, username) ==
    [url |-> url, query_params |-> query_params, body |-> body,
     timeout |-> timeout, username |-> username, method |-> "POST"]

\* QueryParams::default()
DefaultQueryParams ==
    [api_key |-> None, return_score |-> None, abuse_types |-> None,
     return_action |-> None, return_workflow_status |-> None]

\* EventQueryParams::from(options), then QueryParams::from(eqp)
EventQueryParams(options) ==
    [DefaultQueryParams EXCEPT
        !.return_score = options.return_score,
        !.abuse_types = options.abuse_types,
        !.return_action = options.return_action,
        !.return_workflow_status = options.return_workflow_status]

\* EventOptions::default()
DefaultEventOptions ==
    [api_key |-> None, timeout |-> None, return_score |-> None,
     abuse_types |-> None, return_action |-> None, return_workflow_status |-> None,
     version |-> None, path |-> None]

UnwrapOr(o, d) == IF o = None THEN d ELSE o[1]

\* TrackRequest passing the key as the basic-auth username, as the
\* verification methods do, instead of in the body
TrackRequestBasicAuth(event, options) ==
    PostRequest(
        <<origin, UnwrapOr(options.version, "v205"),
          UnwrapOr(options.path, <<"events">>)>>,
        Some(EventQueryParams(options)),
        Some(event),
        UnwrapOr(options.timeout, DEFAULT_TIMEOUT),
        Some(UnwrapOr(options.api_key, api_key)))

\* TrackRequest with the timeout of the options left unread
TrackRequestDefaultTimeout(event, options) ==
    PostRequest(
        <<origin, UnwrapOr(options.version, "v205"),
          UnwrapOr(options.path, <<"events">>)>>,
        Some(EventQueryParams(options)),
        Some(JObj(("$api_key" :> JStr(UnwrapOr(options.api_key, api_key)))
                  @@ event.f)),
        DEFAULT_TIMEOUT,
        None)

\* TrackRequest with a "$api_key" of the event kept instead of overwritten
TrackRequestEventKeyWins(event, options) ==
    PostRequest(
        <<origin, UnwrapOr(options.version, "v205"),
          UnwrapOr(options.path, <<"events">>)>>,
        Some(EventQueryParams(options)),
        Some(JObj(IF "$api_key" \in DOMAIN event.f THEN event.f
                  ELSE ("$api_key" :> JStr(UnwrapOr(options.api_key, api_key)))
                       @@ event.f)),
        UnwrapOr(options.timeout, DEFAULT_TIMEOUT),
        None)

\* the request track builds for an event (a JSON object) and its options
TrackRequest(event, options) ==
    PostRequest(
        <<origin, UnwrapOr(options.version, "v205"),
          UnwrapOr(options.path, <<"events">>)>>,
        Some(EventQueryParams(options)),
        Some(JObj(("$api_key" :> JStr(UnwrapOr(options.api_key, api_key)))
                  @@ event.f)),
        UnwrapOr(options.timeout, DEFAULT_TIMEOUT),
        None)

\* no transport implementation of the crate took part in the call
NoHttp == None

\* nothing was returned: no call was made
NoCall == [called |-> FALSE]

\* a method without arguments
NoArgs == [none |-> TRUE]

\* no transport implementation put a query on a URL
NoQuery == <<>>

\* no transport implementation set credentials
NoAuth == None

\* Track issuing the request a second time after a transport error
TrackRetry(event, options, r) ==
    /\ op' = "track"
    /\ args' = [options |-> options, event |-> event]
    /\ sent' = IF r.ok THEN <<TrackRequest(event, options)>>
               ELSE <<TrackRequest(event, options), TrackRequest(event, options)>>
    /\ reply' = r
    /\ result' = TrackReturn(r)
    /\ http' = NoHttp
    /\ query' = NoQuery
    /\ auth' = NoAuth
    /\ decodes' = 0
    /\ UNCHANGED <<client, inflight>>

Track(event, options, r) ==
    /\ op' = "track"
    /\ args' = [options |-> options, event |-> event]
    /\ sent' = <<TrackRequest(event, options)>>
    /\ reply' = r
    /\ result' = TrackReturn(r)
    /\ http' = NoHttp
    /\ query' = NoQuery
    /\ auth' = NoAuth
    /\ decodes' = 0
    /\ UNCHANGED <<client, inflight>>

-----------------------------------------------------------------------------
(* urlencoding::encode, on strings given as sequences of characters *)

\* characters urlencoding leaves as they are (ASCII alphanumerics and -_.~),
\* as far as the model's alphabet has them
Unreserved == {"u", "1", "-", "_", ".", "~"}

\* %XX, the upper-case hexadecimal of the byte
PercentCode(c) ==
    CASE c = "/" -> <<"%", "2", "F">>
      [] c = " " -> <<"%", "2", "0">>
      [] c = "%" -> <<"%", "2", "5">>
      [] c = "?" -> <<"%", "3", "F">>
      [] c = "#" -> <<"%", "2", "3">>

\* the user id put into the URL as it is
UrlEncodeNothing(str) == str

RECURSIVE UrlEncode(_)
UrlEncode(str) ==
    IF str = <<>> THEN <<>>
    ELSE (IF Head(str) \in Unreserved THEN <<Head(str)>> ELSE PercentCode(Head(str)))
         \o UrlEncode(Tail(str))

-----------------------------------------------------------------------------
(* Client::get_user_score and Client::rescore_user *)

\* the request handed to HttpClient::get
GetRequest(url, query_params, timeout, username) ==
    [url |-> url, query_params |-> Some(query_params), body |-> None,
     timeout |-> timeout, username |-> username, method |-> "GET"]

\* ScoreOptions::default()
DefaultScoreOptions ==
    [api_key |-> None, timeout |-> None, abuse_types |-> None, version |-> None,
     path_prefix |-> None, path_suffix |-> None]

\* ScoreQueryParams without the get_or_insert_with of the client's key, which
\* leaves the unwrap_or_default of ScoreQueryParams::from
ScoreQueryParamsNoDefault(opts) ==
    [DefaultQueryParams EXCEPT
        !.api_key = Some(UnwrapOr(opts.api_key, "")),
        !.abuse_types = opts.abuse_types]

\* opts.api_key.get_or_insert_with(|| self.api_key.clone()), then
\* ScoreQueryParams::from(opts) and QueryParams::from(sqp)
ScoreQueryParams(opts) ==
    [DefaultQueryParams EXCEPT
        !.api_key = Some(UnwrapOr(opts.api_key, api_key)),
        !.abuse_types = opts.abuse_types]

\* the suffix is taken from opts.path_prefix, as the source has it
ScoreUrl(user_id, opts) ==
    <<origin, UnwrapOr(opts.version, "v205"), UnwrapOr(opts.path_prefix, "users"),
      UrlEncode(user_id), UnwrapOr(opts.path_prefix, "score")>>

\* what get_user_score returns for the transport's result r of its get
GetUserScoreReturn(r) ==
    IF ~r.ok THEN r
    ELSE IF ~ScoreResponseOk(r.val) THEN Err(DecodeFailure)
    ELSE Ok(ScoreResponseFromValue(r.val))

\* the request get_user_score hands to HttpClient::get
GetUserScoreRequest(user_id, opts) ==
    GetRequest(ScoreUrl(user_id, opts), ScoreQueryParams(opts),
               UnwrapOr(opts.timeout, DEFAULT_TIMEOUT), None)

GetUserScore(user_id, opts, r) ==
    /\ op' = "get_user_score"
    /\ args' = [opts |-> opts, user_id |-> user_id]
    /\ sent' = <<GetUserScoreRequest(user_id, opts)>>
    /\ reply' = r
    /\ result' = GetUserScoreReturn(r)
    /\ http' = NoHttp
    /\ query' = NoQuery
    /\ auth' = NoAuth
    /\ decodes' = 0
    /\ UNCHANGED <<client, inflight>>

\* RescoreUserReturn taking a missing body for a success, as track does
RescoreUserReturnEmptyOk(r) ==
    IF ~r.ok THEN r
    ELSE IF r.val = None
    THEN Ok([status |-> 0, error_message |-> "", scores |-> None,
             entity_id |-> None, entity_type |-> None])
    ELSE IF ~ScoreResponseOk(r.val[1]) THEN Err(DecodeFailure)
    ELSE Ok(ScoreResponseFromValue(r.val[1]))

\* what rescore_user returns for the transport's result r of its post
RescoreUserReturn(r) ==
    IF ~r.ok THEN r
    ELSE IF r.val = None
    THEN Err(ServerError("Expected a score, but received empty server response"))
    ELSE IF ~ScoreResponseOk(r.val[1]) THEN Err(DecodeFailure)
    ELSE Ok(ScoreResponseFromValue(r.val[1]))

\* the request rescore_user hands to HttpClient::post
RescoreUserRequest(user_id, opts) ==
    PostRequest(ScoreUrl(user_id, opts), Some(ScoreQueryParams(opts)), None,
                UnwrapOr(opts.timeout, DEFAULT_TIMEOUT), None)

RescoreUser(user_id, opts, r) ==
    /\ op' = "rescore_user"
    /\ args' = [opts |-> opts, user_id |-> user_id]
    /\ sent' = <<RescoreUserRequest(user_id, opts)>>
    /\ reply' = r
    /\ result' = RescoreUserReturn(r)
    /\ http' = NoHttp
    /\ query' = NoQuery
    /\ auth' = NoAuth
    /\ decodes' = 0
    /\ UNCHANGED <<client, inflight>>

-----------------------------------------------------------------------------
(* Client::label *)

\* AbuseType as serde writes it: #[serde(rename_all = "snake_case")]
AbuseTypeSerde(t) ==
    CASE t = "AccountTakeover" -> "account_takeover"
      [] t = "AccountAbuse" -> "account_abuse"
      [] t = "ContentAbuse" -> "content_abuse"
      [] t = "PaymentAbuse" -> "payment_abuse"
      [] t = "PromoAbuse" -> "promo_abuse"

\* Event::from(LabelProperties), serialized: tag $type, renamed fields, the
\* Option fields skipped when None
LabelEvent(props) ==
    JObj(("$type" :> JStr("$label"))
         @@ ("$is_fraud" :> JBool(props.is_fraud))
         @@ ("$abuse_type" :> JStr(AbuseTypeSerde(props.abuse_type)))
         @@ Field("$description", IF props.description = None THEN None
                                  ELSE Some(JStr(props.description[1])))
         @@ Field("$source", IF props.source = None THEN None
                             ELSE Some(JStr(props.source[1])))
         @@ Field("$analyst", IF props.analyst = None THEN None
                              ELSE Some(JStr(props.analyst[1]))))

\* LabelEventOptions leaving the api_key to ..Default::default()
LabelEventOptionsNoKey(opts, formatted_id) ==
    [DefaultEventOptions EXCEPT
        !.timeout = opts.timeout,
        !.version = opts.version,
        !.path = Some(<<"users", formatted_id, "labels">>)]

\* EventOptions::from((LabelOptions, formatted_id))
LabelEventOptions(opts, formatted_id) ==
    [DefaultEventOptions EXCEPT
        !.api_key = opts.api_key,
        !.timeout = opts.timeout,
        !.version = opts.version,
        !.path = Some(<<"users", formatted_id, "labels">>)]

\* LabelOptions::default()
DefaultLabelOptions == [api_key |-> None, timeout |-> None, version |-> None]

\* self.track(..).await?; Ok(())
LabelReturn(r) ==
    IF TrackReturn(r).ok THEN Ok(Unit) ELSE TrackReturn(r)

Label(user_id, properties, opts, r) ==
    /\ op' = "label"
    /\ args' = [opts |-> opts, user_id |-> user_id, properties |-> properties]
    /\ sent' = <<TrackRequest(LabelEvent(properties),
                              LabelEventOptions(opts, UrlEncode(user_id)))>>
    /\ reply' = r
    /\ result' = LabelReturn(r)
    /\ http' = NoHttp
    /\ query' = NoQuery
    /\ auth' = NoAuth
    /\ decodes' = 0
    /\ UNCHANGED <<client, inflight>>

-----------------------------------------------------------------------------
(* Client::send_verification, resend_verification, check_verification *)

\* a SystemTime, as the whole seconds and the nanoseconds since the epoch
UNIX_EPOCH == [secs |-> 0, nanos |-> 0]
\* DurationFromMillis taking the number for seconds (Duration::from_secs)
DurationFromSecs(ms) == [secs |-> ms, nanos |-> 0]

\* Duration::from_millis
DurationFromMillis(ms) == [secs |-> ms \div 1000, nanos |-> (ms % 1000) * 1000000]
\* UNIX_EPOCH.checked_add(duration)
EpochPlus(d) == [secs |-> UNIX_EPOCH.secs + d.secs, nanos |-> UNIX_EPOCH.nanos + d.nanos]

\* deserialize_opt_ms on a key that is present: null or a u64 of milliseconds
OptMsOk(v) == v = JNull \/ (IsNum(v) /\ v.n >= 0)
\* maybe_ms.and_then(|ms| UNIX_EPOCH.checked_add(Duration::from_millis(ms)))
OptMsFromValue(v) ==
    IF v = JNull THEN None ELSE Some(EpochPlus(DurationFromMillis(v.n)))
\* deserialize_ms: None becomes UNIX_EPOCH
MsFromValue(v) == UnwrapOr(OptMsFromValue(v), UNIX_EPOCH)

\* SendResponse { status, error_message, sent_at (deserialize_with, hence
\* mandatory), brand_name: Option<String>, .. }
SendResponseOk(v) ==
    /\ Has(v, "status") /\ IsNum(v.f["status"])
    /\ Has(v, "error_message") /\ IsStr(v.f["error_message"])
    /\ Has(v, "sent_at") /\ OptMsOk(v.f["sent_at"])
    /\ Missing(v, "brand_name") \/ IsStr(v.f["brand_name"])

SendResponseFromValue(v) ==
    [status |-> v.f["status"].n,
     error_message |-> v.f["error_message"].s,
     sent_at |-> OptMsFromValue(v.f["sent_at"]),
     brand_name |-> IF Missing(v, "brand_name") THEN None
                    ELSE Some(v.f["brand_name"].s)]

\* CheckResponse { status, error_message, checked_at (deserialize_with) }
CheckResponseOk(v) ==
    /\ Has(v, "status") /\ IsNum(v.f["status"])
    /\ Has(v, "error_message") /\ IsStr(v.f["error_message"])
    /\ Has(v, "checked_at") /\ OptMsOk(v.f["checked_at"])

CheckResponseFromValue(v) ==
    [status |-> v.f["status"].n,
     error_message |-> v.f["error_message"].s,
     checked_at |-> MsFromValue(v.f["checked_at"])]

\* VerificationMatch without the guarded arm
VerificationMatchNoGuard(resp) == Ok(resp)

\* the match on a decoded SendResponse or CheckResponse
VerificationMatch(resp) ==
    IF resp.status # 0
    THEN Err(RequestError(resp.status, resp.error_message))
    ELSE Ok(resp)

EmptyVerification ==
    Err(ServerError("Expected a verification, but received empty server response"))

\* what send_verification and resend_verification return for the result r
SendVerificationReturn(r) ==
    IF ~r.ok THEN r
    ELSE IF r.val = None THEN EmptyVerification
    ELSE IF ~SendResponseOk(r.val[1]) THEN Err(DecodeFailure)
    ELSE VerificationMatch(SendResponseFromValue(r.val[1]))

\* what check_verification returns for the result r
CheckVerificationReturn(r) ==
    IF ~r.ok THEN r
    ELSE IF r.val = None THEN EmptyVerification
    ELSE IF ~CheckResponseOk(r.val[1]) THEN Err(DecodeFailure)
    ELSE VerificationMatch(CheckResponseFromValue(r.val[1]))

SendVerification(req, r) ==
    /\ op' = "send_verification"
    /\ args' = [req |-> req]
    /\ sent' = <<PostRequest(<<origin, "v1", "verification", "send">>, None,
                             Some(req), DEFAULT_TIMEOUT, Some(api_key))>>
    /\ reply' = r
    /\ result' = SendVerificationReturn(r)
    /\ http' = NoHttp
    /\ query' = NoQuery
    /\ auth' = NoAuth
    /\ decodes' = 0
    /\ UNCHANGED <<client, inflight>>

ResendVerification(req, r) ==
    /\ op' = "resend_verification"
    /\ args' = [req |-> req]
    /\ sent' = <<PostRequest(<<origin, "v1", "verification", "resend">>, None,
                             Some(req), DEFAULT_TIMEOUT, Some(api_key))>>
    /\ reply' = r
    /\ result' = SendVerificationReturn(r)
    /\ http' = NoHttp
    /\ query' = NoQuery
    /\ auth' = NoAuth
    /\ decodes' = 0
    /\ UNCHANGED <<client, inflight>>

\* CheckOptions::default()
DefaultCheckOptions ==
    [timeout |-> None, version |-> None, verified_event |-> None,
     verified_entity_id |-> None]

\* VerifiedEvent as serde writes it (serde(rename) of each variant)
VerifiedEventSerde(e) ==
    CASE e = "CreateOrder" -> "$create_order"
      [] e = "Login" -> "$login"

\* CheckRequest serialized: $user_id, $code, the Option fields skipped when None
CheckRequest(user_id, code, opts) ==
    JObj(("$user_id" :> JStr(user_id)) @@ ("$code" :> JNum(code))
         @@ Field("$verified_event",
                  IF opts.verified_event = None THEN None
                  ELSE Some(JStr(VerifiedEventSerde(opts.verified_event[1]))))
         @@ Field("$verified_entity_id",
                  IF opts.verified_entity_id = None THEN None
                  ELSE Some(JStr(opts.verified_entity_id[1]))))

CheckVerification(user_id, code, opts, r) ==
    /\ op' = "check_verification"
    /\ args' = [opts |-> opts, user_id |-> user_id, code |-> code]
    /\ sent' = <<PostRequest(<<origin, UnwrapOr(opts.version, "v1"),
                               "verification", "check">>, None,
                             Some(CheckRequest(user_id, code, opts)),
                             UnwrapOr(opts.timeout, DEFAULT_TIMEOUT),
                             Some(api_key))>>
    /\ reply' = r
    /\ result' = CheckVerificationReturn(r)
    /\ http' = NoHttp
    /\ query' = NoQuery
    /\ auth' = NoAuth
    /\ decodes' = 0
    /\ UNCHANGED <<client, inflight>>

-----------------------------------------------------------------------------
(* The Error enum decoded from JSON: #[serde(untagged)], variants in order *)

ClientErrorShape(v) ==
    /\ Has(v, "error") /\ IsStr(v.f["error"])
    /\ Has(v, "description") /\ IsStr(v.f["description"])

RequestErrorShape(v) ==
    /\ Has(v, "status") /\ IsNum(v.f["status"])
    /\ Has(v, "error_message") /\ IsStr(v.f["error_message"])

\* the newtype variant Server(String) decodes from a JSON string
ServerErrorShape(v) == IsStr(v)

ErrorOk(v) == ClientErrorShape(v) \/ RequestErrorShape(v) \/ ServerErrorShape(v)

ErrorFromValue(v) ==
    IF ClientErrorShape(v) THEN ClientError(v.f["error"].s, v.f["description"].s)
    ELSE IF RequestErrorShape(v)
    THEN RequestError(v.f["status"].n, v.f["error_message"].s)
    ELSE ServerError(v.s)

-----------------------------------------------------------------------------
(* Webhooks *)

\* the variants of enum PayloadType, Status and EnabledEvent
PayloadTypes == {"OrderV10"}
WebhookStatuses == {"Draft", "Active"}
EnabledEvents ==
    {"CreateOrder", "UpdateOrder", "OrderStatus", "Transaction", "Chargeback"}

\* #[serde(rename = "ORDER_V1_0")]
PayloadTypeSerde(p) == CASE p = "OrderV10" -> "ORDER_V1_0"

\* Status written as its variant name, without rename_all
StatusSerdeVariantName(st) == st

\* #[serde(rename_all = "UPPERCASE")]
StatusSerde(st) ==
    CASE st = "Draft" -> "DRAFT"
      [] st = "Active" -> "ACTIVE"

\* the #[serde(rename = ..)] of each variant of EnabledEvent
EnabledEventSerde(e) ==
    CASE e = "CreateOrder" -> "$create_order"
      [] e = "UpdateOrder" -> "$update_order"
      [] e = "OrderStatus" -> "$order_status"
      [] e = "Transaction" -> "$transaction"
      [] e = "Chargeback" -> "$chargeback"

\* the names derive(Deserialize) accepts, and the variant of an accepted name
PayloadTypeNames == {PayloadTypeSerde(p) : p \in PayloadTypes}
StatusNames == {"DRAFT", "ACTIVE"}
EnabledEventNames == {EnabledEventSerde(e) : e \in EnabledEvents}
PayloadTypeFromName(n) == CHOOSE p \in PayloadTypes : PayloadTypeSerde(p) = n
StatusFromName(n) == IF n = "DRAFT" THEN "Draft" ELSE "Active"
EnabledEventFromName(n) == CHOOSE e \in EnabledEvents : EnabledEventSerde(e) = n

\* Webhook: id: u64, name and description default to None, created and
\* last_updated go through deserialize_ms and must be present
WebhookOk(v) ==
    /\ Has(v, "id") /\ IsNum(v.f["id"]) /\ v.f["id"].n >= 0
    /\ Missing(v, "name") \/ IsStr(v.f["name"])
    /\ Missing(v, "description") \/ IsStr(v.f["description"])
    /\ Has(v, "payload_type") /\ IsStr(v.f["payload_type"])
    /\ v.f["payload_type"].s \in PayloadTypeNames
    /\ Has(v, "status") /\ IsStr(v.f["status"]) /\ v.f["status"].s \in StatusNames
    /\ Has(v, "url") /\ IsStr(v.f["url"])
    /\ Has(v, "enabled_events") /\ v.f["enabled_events"].j = "array"
    /\ \A i \in DOMAIN v.f["enabled_events"].a :
          /\ IsStr(v.f["enabled_events"].a[i])
          /\ v.f["enabled_events"].a[i].s \in EnabledEventNames
    /\ Has(v, "created") /\ OptMsOk(v.f["created"])
    /\ Has(v, "last_updated") /\ OptMsOk(v.f["last_updated"])

WebhookFromValue(v) ==
    [status |-> StatusFromName(v.f["status"].s),
     description |-> IF Missing(v, "description") THEN None
                     ELSE Some(v.f["description"].s),
     name |-> IF Missing(v, "name") THEN None ELSE Some(v.f["name"].s),
     url |-> v.f["url"].s,
     id |-> v.f["id"].n,
     payload_type |-> PayloadTypeFromName(v.f["payload_type"].s),
     enabled_events |-> [i \in DOMAIN v.f["enabled_events"].a |->
                            EnabledEventFromName(v.f["enabled_events"].a[i].s)],
     created |-> MsFromValue(v.f["created"]),
     last_updated |-> MsFromValue(v.f["last_updated"])]

\* an Option<String> serialized without skip_serializing_none: null when None
OptStrToValue(o) == IF o = None THEN JNull ELSE JStr(o[1])

\* json!(webhook): created and last_updated are skip_serializing
WebhookToValue(w) ==
    JObj([status |-> JStr(StatusSerde(w.status)),
          description |-> OptStrToValue(w.description),
          name |-> OptStrToValue(w.name),
          url |-> JStr(w.url),
          id |-> JNum(w.id),
          payload_type |-> JStr(PayloadTypeSerde(w.payload_type)),
          enabled_events |-> JArr([i \in DOMAIN w.enabled_events |->
                                      JStr(EnabledEventSerde(w.enabled_events[i]))])])

\* json!(req) for a WebhookRequest
WebhookRequestToValue(req) ==
    JObj([status |-> JStr(StatusSerde(req.status)),
          description |-> OptStrToValue(req.description),
          name |-> OptStrToValue(req.name),
          url |-> JStr(req.url),
          payload_type |-> JStr(PayloadTypeSerde(req.payload_type)),
          enabled_events |-> JArr([i \in DOMAIN req.enabled_events |->
                                      JStr(EnabledEventSerde(req.enabled_events[i]))])])

\* WebhooksResponse::Webhooks { data: Vec<Webhook> }
WebhooksDataOk(v) ==
    /\ Has(v, "data") /\ v.f["data"].j = "array"
    /\ \A i \in DOMAIN v.f["data"].a : WebhookOk(v.f["data"].a[i])

\* the request handed to HttpClient::put
PutRequest(url, body, timeout, username) ==
    [url |-> url, query_params |-> None, body |-> Some(body), timeout |-> timeout,
     username |-> Some(username), method |-> "PUT"]

\* the request handed to HttpClient::delete
DeleteRequest(url, timeout, username) ==
    [url |-> url, query_params |-> None, body |-> None, timeout |-> timeout,
     username |-> Some(username), method |-> "DELETE"]

\* RequireAccountId with unwrap_or_default in place of ok_or_else
RequireAccountIdLenient ==
    IF account_id = None THEN Ok("") ELSE Ok(account_id[1])

\* self.account_id.as_ref().ok_or_else(|| Error::Server(..))?
RequireAccountId ==
    IF account_id = None THEN Err(ServerError("account id not specified"))
    ELSE Ok(account_id[1])

\* {origin}/v3/accounts/{account_id}/webhooks
WebhooksUrl(acct) == <<origin, "v3", "accounts", acct, "webhooks">>
\* {origin}/v3/accounts/{account_id}/webhooks/{id}
WebhookUrl(acct, id) == <<origin, "v3", "accounts", acct, "webhooks", id>>

\* the account id check comes first: when it fails nothing is sent, nothing
\* comes back and the method returns the check's error
WebhookSent(request) == IF RequireAccountId.ok THEN <<request>> ELSE <<>>
WebhookReply(r) == IF RequireAccountId.ok THEN r ELSE NoCall
WebhookResult(ret) == IF RequireAccountId.ok THEN ret ELSE Err(RequireAccountId.err)

\* CreateWebhookReturn with the empty reply accepted, as track accepts it
CreateWebhookReturnEmptyOk(r) ==
    IF ~r.ok THEN r
    ELSE IF r.val = None THEN Ok(None)
    ELSE IF ~WebhookOk(r.val[1]) THEN Err(DecodeFailure)
    ELSE Ok(WebhookFromValue(r.val[1]))

CreateWebhookReturn(r) ==
    IF ~r.ok THEN r
    ELSE IF r.val = None
    THEN Err(ServerError("Expected a webhook, but received empty server response"))
    ELSE IF ~WebhookOk(r.val[1]) THEN Err(DecodeFailure)
    ELSE Ok(WebhookFromValue(r.val[1]))

CreateWebhook(req, r) ==
    /\ op' = "create_webhook"
    /\ args' = [req |-> req]
    /\ sent' = WebhookSent(PostRequest(WebhooksUrl(RequireAccountId.val), None,
                                       Some(WebhookRequestToValue(req)),
                                       DEFAULT_TIMEOUT, Some(api_key)))
    /\ reply' = WebhookReply(r)
    /\ result' = WebhookResult(CreateWebhookReturn(r))
    /\ http' = NoHttp
    /\ query' = NoQuery
    /\ auth' = NoAuth
    /\ decodes' = 0
    /\ UNCHANGED <<client, inflight>>

GetWebhooksReturn(r) ==
    IF ~r.ok THEN r
    ELSE IF ErrorOk(r.val) THEN Err(ErrorFromValue(r.val))
    ELSE IF WebhooksDataOk(r.val)
    THEN Ok([i \in DOMAIN r.val.f["data"].a |-> WebhookFromValue(r.val.f["data"].a[i])])
    ELSE Err(DecodeFailure)

GetWebhooks(r) ==
    /\ op' = "get_webhooks"
    /\ args' = NoArgs
    /\ sent' = WebhookSent(GetRequest(WebhooksUrl(RequireAccountId.val),
                                      DefaultQueryParams, DEFAULT_TIMEOUT,
                                      Some(api_key)))
    /\ reply' = WebhookReply(r)
    /\ result' = WebhookResult(GetWebhooksReturn(r))
    /\ http' = NoHttp
    /\ query' = NoQuery
    /\ auth' = NoAuth
    /\ decodes' = 0
    /\ UNCHANGED <<client, inflight>>

\* WebhookResponseReturn with the Webhook variant declared before Error
WebhookResponseReturnWebhookFirst(r) ==
    IF ~r.ok THEN r
    ELSE IF WebhookOk(r.val) THEN Ok(WebhookFromValue(r.val))
    ELSE IF ErrorOk(r.val) THEN Err(ErrorFromValue(r.val))
    ELSE Err(DecodeFailure)

\* the match on WebhookResponse, shared by get_webhook and update_webhook
WebhookResponseReturn(r) ==
    IF ~r.ok THEN r
    ELSE IF ErrorOk(r.val) THEN Err(ErrorFromValue(r.val))
    ELSE IF WebhookOk(r.val) THEN Ok(WebhookFromValue(r.val))
    ELSE Err(DecodeFailure)

GetWebhook(id, r) ==
    /\ op' = "get_webhook"
    /\ args' = [id |-> id]
    /\ sent' = WebhookSent(GetRequest(WebhookUrl(RequireAccountId.val, id),
                                      DefaultQueryParams, DEFAULT_TIMEOUT,
                                      Some(api_key)))
    /\ reply' = WebhookReply(r)
    /\ result' = WebhookResult(WebhookResponseReturn(r))
    /\ http' = NoHttp
    /\ query' = NoQuery
    /\ auth' = NoAuth
    /\ decodes' = 0
    /\ UNCHANGED <<client, inflight>>

UpdateWebhook(webhook, r) ==
    /\ op' = "update_webhook"
    /\ args' = [webhook |-> webhook]
    /\ sent' = WebhookSent(PutRequest(WebhookUrl(RequireAccountId.val, webhook.id),
                                      WebhookToValue(webhook), DEFAULT_TIMEOUT,
                                      api_key))
    /\ reply' = WebhookReply(r)
    /\ result' = WebhookResult(WebhookResponseReturn(r))
    /\ http' = NoHttp
    /\ query' = NoQuery
    /\ auth' = NoAuth
    /\ decodes' = 0
    /\ UNCHANGED <<client, inflight>>

DeleteWebhook(id, r) ==
    /\ op' = "delete_webhook"
    /\ args' = [id |-> id]
    /\ sent' = WebhookSent(DeleteRequest(WebhookUrl(RequireAccountId.val, id),
                                         DEFAULT_TIMEOUT, api_key))
    /\ reply' = WebhookReply(r)
    /\ result' = WebhookResult(r)
    /\ http' = NoHttp
    /\ query' = NoQuery
    /\ auth' = NoAuth
    /\ decodes' = 0
    /\ UNCHANGED <<client, inflight>>

\* what the atomic actions record of the last call
last_call == <<op, sent, http, decodes, reply, result, args, query, auth>>

\* Client::with_account_id
WithAccountId(id) ==
    /\ account_id' = Some(id)
    /\ UNCHANGED <<api_key, origin, op, sent, http, decodes, reply, result, args,
                   query, auth, inflight>>

\* Client::with_origin
WithOrigin(o) ==
    /\ origin' = o
    /\ UNCHANGED <<api_key, account_id, op, sent, http, decodes, reply, result,
                   args, query, auth, inflight>>

\* Client::new
New(key) ==
    /\ api_key' = key
    /\ account_id' = None
    /\ origin' = SIFT_ORIGIN
    /\ UNCHANGED <<last_call, inflight>>

\* what derive(Debug) would write: every field with its value
ClientDebugDerived ==
    [name |-> "Client",
     fields |-> << <<"api_key", api_key>>, <<"account_id", account_id>>,
                   <<"origin", origin>> >>]

\* f.debug_struct("Client").field("api_key", &"****")
\*     .field("account_id", &self.account_id).field("origin", &self.origin)
ClientDebug ==
    [name |-> "Client",
     fields |-> << <<"api_key", "****">>, <<"account_id", account_id>>,
                   <<"origin", origin>> >>]

\* impl fmt::Debug for Client: fmt(&self, f)
Fmt ==
    /\ op' = "fmt"
    /\ args' = [self |-> [api_key |-> api_key, account_id |-> account_id,
                          origin |-> origin]]
    /\ result' = ClientDebug
    /\ sent' = <<>>
    /\ reply' = NoCall
    /\ http' = NoHttp
    /\ query' = NoQuery
    /\ auth' = NoAuth
    /\ decodes' = 0
    /\ UNCHANGED <<client, inflight>>

-----------------------------------------------------------------------------
(* Calls in progress.  The endpoint methods are async fns on &self: a call *)
(* runs up to the .await of its transport call, and from there once the    *)
(* transport has returned; calls of several callers interleave at that     *)
(* point.                                                                  *)

Slots == 1..MaxCalls

\* no call in progress in the slot
Idle == [phase |-> "idle"]

\* a call waiting for the transport call it issued
Awaiting(method, arguments, request) ==
    [op |-> method, sent |-> <<request>>, args |-> arguments, phase |-> "awaiting"]

\* a call that returned
Done(method, arguments, requests, r, ret) ==
    [op |-> method, sent |-> requests, reply |-> r, result |-> ret,
     args |-> arguments, phase |-> "done"]

\* track up to self.http_client.post(..).await
BeginTrack(slot, event, options) ==
    /\ inflight[slot] = Idle
    /\ inflight' = [inflight EXCEPT ![slot] =
                        Awaiting("track", [options |-> options, event |-> event],
                                 TrackRequest(event, options))]
    /\ UNCHANGED <<client, last_call>>

\* track from the return of the transport call
CompleteTrack(slot, r) ==
    /\ inflight[slot].phase = "awaiting" /\ inflight[slot].op = "track"
    /\ inflight' = [inflight EXCEPT ![slot] =
                        Done("track", inflight[slot].args, inflight[slot].sent, r,
                             TrackReturn(r))]
    /\ UNCHANGED <<client, last_call>>

\* get_webhook up to self.http_client.get(..).await, or up to its return when
\* the client has no account id
BeginGetWebhook(slot, id) ==
    /\ inflight[slot] = Idle
    /\ inflight' = [inflight EXCEPT ![slot] =
                        IF RequireAccountId.ok
                        THEN Awaiting("get_webhook", [id |-> id],
                                      GetRequest(WebhookUrl(RequireAccountId.val, id),
                                                 DefaultQueryParams, DEFAULT_TIMEOUT,
                                                 Some(api_key)))
                        ELSE Done("get_webhook", [id |-> id], <<>>, NoCall,
                                  Err(RequireAccountId.err))]
    /\ UNCHANGED <<client, last_call>>

\* CompleteGetWebhook answering from the result of another caller's call
CompleteGetWebhookCached(slot, r) ==
    /\ inflight[slot].phase = "awaiting" /\ inflight[slot].op = "get_webhook"
    /\ LET cached == {other \in Slots :
                         /\ inflight[other].phase = "done"
                         /\ inflight[other].op = "get_webhook"
                         /\ inflight[other].result.ok}
       IN  inflight' = [inflight EXCEPT ![slot] =
                           Done("get_webhook", inflight[slot].args,
                                inflight[slot].sent, r,
                                IF cached = {} THEN WebhookResponseReturn(r)
                                ELSE inflight[CHOOSE other \in cached : TRUE].result)]
    /\ UNCHANGED <<client, last_call>>

\* get_webhook from the return of the transport call
CompleteGetWebhook(slot, r) ==
    /\ inflight[slot].phase = "awaiting" /\ inflight[slot].op = "get_webhook"
    /\ inflight' = [inflight EXCEPT ![slot] =
                        Done("get_webhook", inflight[slot].args, inflight[slot].sent,
                             r, WebhookResponseReturn(r))]
    /\ UNCHANGED <<client, last_call>>

\* the caller takes the result of its call
TakeResult(slot) ==
    /\ inflight[slot].phase = "done"
    /\ inflight' = [inflight EXCEPT ![slot] = Idle]
    /\ UNCHANGED <<client, last_call>>

\* with_account_id takes the client by value: no call borrows it
WithAccountIdUnborrowed(id) ==
    /\ \A slot \in Slots : inflight[slot] = Idle
    /\ WithAccountId(id)

-----------------------------------------------------------------------------
(* QueryParams serialized into query pairs (derive(Serialize), handed to     *)
(* serde_urlencoded by the query method of the request builders)           *)

\* the variants of enum AbuseType
AbuseTypes ==
    {"AccountTakeover", "AccountAbuse", "ContentAbuse", "PaymentAbuse", "PromoAbuse"}

\* impl fmt::Display for AbuseType
AbuseTypeToString(t) ==
    CASE t = "AccountAbuse" -> "account_abuse"
      [] t = "AccountTakeover" -> "account_takeover"
      [] t = "ContentAbuse" -> "content_abuse"
      [] t = "PaymentAbuse" -> "payment_abuse"
      [] t = "PromoAbuse" -> "promo_abuse"

\* [String]::join(",")
RECURSIVE JoinComma(_)
JoinComma(strs) ==
    IF strs = <<>> THEN ""
    ELSE IF Len(strs) = 1 THEN strs[1]
    ELSE strs[1] \o "," \o JoinComma(Tail(strs))

\* abuse_type_serialize: serialize_some(joined) or serialize_none()
abuse_type_serialize(types) ==
    IF types = None THEN None
    ELSE Some(JoinComma([i \in DOMAIN types[1] |-> AbuseTypeToString(types[1][i])]))

\* a bool as serde_urlencoded writes it
BoolToString(o) == IF o = None THEN None ELSE Some(IF o[1] THEN "true" ELSE "false")

\* one key=value pair, or nothing for a field that serializes as None
Pair(k, o) == IF o = None THEN <<>> ELSE << <<k, o[1]>> >>

\* the pairs of a QueryParams, in the order of its fields
SerializeQuery(qp) ==
    Pair("api_key", qp.api_key)
    \o Pair("return_score", BoolToString(qp.return_score))
    \o Pair("abuse_types", abuse_type_serialize(qp.abuse_types))
    \o Pair("return_action", BoolToString(qp.return_action))
    \o Pair("return_workflow_status", BoolToString(qp.return_workflow_status))

-----------------------------------------------------------------------------
(* The transport implementations: impl HttpClient for awc::Client and for  *)
(* reqwest::Client.  h is what the network did with the request: the send  *)
(* failed, or a reply with an HTTP status, a content type and a body came. *)

NO_CONTENT == 204
\* StatusCode::is_success
IsSuccess(status) == status >= 200 /\ status <= 299

SendError == Err(ServerError("send request error"))

\* awc's ClientResponse::json, as a Result<Value> with the error already
\* mapped to Error::Server: it refuses a reply whose content type is not JSON
AwcJson(h) ==
    IF ~h.json_content_type THEN Err(ServerError("content type error"))
    ELSE IF h.body.raw # "json" THEN Err(ServerError("json payload error"))
    ELSE Ok(h.body.v)

\* ReqwestJson with a body that does not parse read as null
ReqwestJsonOrNull(h) ==
    IF h.body.raw # "json" THEN Ok(JNull) ELSE Ok(h.body.v)

\* reqwest's Response::json: the bytes are parsed whatever the content type
ReqwestJson(h) ==
    IF h.body.raw # "json" THEN Err(ServerError("error decoding response body"))
    ELSE Ok(h.body.v)

\* let error: Error = res.json().map_err(..).await?; return Err(error);
\* for the result j of res.json(), decoding into the Error enum
ErrorReply(j) ==
    IF ~j.ok THEN j
    ELSE IF ~ErrorOk(j.val) THEN Err(ServerError("error decoding response body"))
    ELSE Err(ErrorFromValue(j.val))

AwcGetReturn(h) ==
    IF h.failed THEN SendError ELSE AwcJson(h)

ReqwestGetReturn(h) ==
    IF h.failed THEN SendError ELSE ReqwestJson(h)

\* post with the 204 test after the body has been decoded, a null body
\* counting as no content
AwcPostDecodeFirst(h) ==
    IF h.failed THEN SendError
    ELSE IF ~IsSuccess(h.status) THEN ErrorReply(AwcJson(h))
    ELSE IF ~AwcJson(h).ok THEN AwcJson(h)
    ELSE IF h.status = NO_CONTENT \/ AwcJson(h).val = JNull THEN Ok(None)
    ELSE Ok(Some(AwcJson(h).val))

AwcPostReturn(h) ==
    IF h.failed THEN SendError
    ELSE IF h.status = NO_CONTENT THEN Ok(None)
    ELSE IF ~IsSuccess(h.status) THEN ErrorReply(AwcJson(h))
    ELSE IF ~AwcJson(h).ok THEN AwcJson(h)
    ELSE Ok(Some(AwcJson(h).val))

ReqwestPostReturn(h) ==
    IF h.failed THEN SendError
    ELSE IF h.status = NO_CONTENT THEN Ok(None)
    ELSE IF ~IsSuccess(h.status) THEN ErrorReply(ReqwestJson(h))
    ELSE IF ~ReqwestJson(h).ok THEN ReqwestJson(h)
    ELSE Ok(Some(ReqwestJson(h).val))

\* put with the 204 allowance of post
AwcPutNoContent(h) ==
    IF h.failed THEN SendError
    ELSE IF h.status = NO_CONTENT THEN Ok(JNull)
    ELSE IF ~IsSuccess(h.status) THEN ErrorReply(AwcJson(h))
    ELSE AwcJson(h)

AwcPutReturn(h) ==
    IF h.failed THEN SendError
    ELSE IF ~IsSuccess(h.status) THEN ErrorReply(AwcJson(h))
    ELSE AwcJson(h)

ReqwestPutReturn(h) ==
    IF h.failed THEN SendError
    ELSE IF ~IsSuccess(h.status) THEN ErrorReply(ReqwestJson(h))
    ELSE ReqwestJson(h)

AwcDeleteReturn(h) ==
    IF h.failed THEN SendError
    ELSE IF ~IsSuccess(h.status) THEN ErrorReply(AwcJson(h))
    ELSE Ok(Unit)

ReqwestDeleteReturn(h) ==
    IF h.failed THEN SendError
    ELSE IF ~IsSuccess(h.status) THEN ErrorReply(ReqwestJson(h))
    ELSE Ok(Unit)

\* the query of the URL a transport sends: awc's query replaces the query of
\* the URL, reqwest's query appends to it, and get of reqwest calls it twice
AwcGetQuery(req) == SerializeQuery(req.query_params[1])
ReqwestGetQuery(req) ==
    SerializeQuery(req.query_params[1]) \o SerializeQuery(req.query_params[1])
PostQuery(req) ==
    IF req.query_params = None THEN NoQuery ELSE SerializeQuery(req.query_params[1])

\* req.basic_auth(username, None) when a username is given: no password
BasicAuth(username) ==
    IF username = None THEN NoAuth
    ELSE Some([username |-> username[1], password |-> None])

\* the number of res.json() calls of get, of post, of put and of delete
GetDecodes(h) == IF h.failed THEN 0 ELSE 1
PostDecodes(h) == IF h.failed \/ h.status = NO_CONTENT THEN 0 ELSE 1
PutDecodes(h) == IF h.failed THEN 0 ELSE 1
DeleteDecodes(h) == IF h.failed \/ IsSuccess(h.status) THEN 0 ELSE 1

AwcGet(req, h) ==
    /\ op' = "awc::get"
    /\ args' = [req |-> req]
    /\ query' = AwcGetQuery(req)
    /\ auth' = BasicAuth(req.username)
    /\ sent' = <<req>>
    /\ http' = Some(h)
    /\ decodes' = GetDecodes(h)
    /\ reply' = AwcGetReturn(h)
    /\ result' = NoCall
    /\ UNCHANGED <<client, inflight>>

ReqwestGet(req, h) ==
    /\ op' = "reqwest::get"
    /\ args' = [req |-> req]
    /\ query' = ReqwestGetQuery(req)
    /\ auth' = BasicAuth(req.username)
    /\ sent' = <<req>>
    /\ http' = Some(h)
    /\ decodes' = GetDecodes(h)
    /\ reply' = ReqwestGetReturn(h)
    /\ result' = NoCall
    /\ UNCHANGED <<client, inflight>>

AwcPost(req, h) ==
    /\ op' = "awc::post"
    /\ args' = [req |-> req]
    /\ query' = PostQuery(req)
    /\ auth' = BasicAuth(req.username)
    /\ sent' = <<req>>
    /\ http' = Some(h)
    /\ decodes' = PostDecodes(h)
    /\ reply' = AwcPostReturn(h)
    /\ result' = NoCall
    /\ UNCHANGED <<client, inflight>>

ReqwestPost(req, h) ==
    /\ op' = "reqwest::post"
    /\ args' = [req |-> req]
    /\ query' = PostQuery(req)
    /\ auth' = BasicAuth(req.username)
    /\ sent' = <<req>>
    /\ http' = Some(h)
    /\ decodes' = PostDecodes(h)
    /\ reply' = ReqwestPostReturn(h)
    /\ result' = NoCall
    /\ UNCHANGED <<client, inflight>>

AwcPut(req, h) ==
    /\ op' = "awc::put"
    /\ args' = [req |-> req]
    /\ query' = NoQuery
    /\ auth' = BasicAuth(req.username)
    /\ sent' = <<req>>
    /\ http' = Some(h)
    /\ decodes' = PutDecodes(h)
    /\ reply' = AwcPutReturn(h)
    /\ result' = NoCall
    /\ UNCHANGED <<client, inflight>>

ReqwestPut(req, h) ==
    /\ op' = "reqwest::put"
    /\ args' = [req |-> req]
    /\ query' = NoQuery
    /\ auth' = BasicAuth(req.username)
    /\ sent' = <<req>>
    /\ http' = Some(h)
    /\ decodes' = PutDecodes(h)
    /\ reply' = ReqwestPutReturn(h)
    /\ result' = NoCall
    /\ UNCHANGED <<client, inflight>>

AwcDelete(req, h) ==
    /\ op' = "awc::delete"
    /\ args' = [req |-> req]
    /\ query' = NoQuery
    /\ auth' = BasicAuth(req.username)
    /\ sent' = <<req>>
    /\ http' = Some(h)
    /\ decodes' = DeleteDecodes(h)
    /\ reply' = AwcDeleteReturn(h)
    /\ result' = NoCall
    /\ UNCHANGED <<client, inflight>>

ReqwestDelete(req, h) ==
    /\ op' = "reqwest::delete"
    /\ args' = [req |-> req]
    /\ query' = NoQuery
    /\ auth' = BasicAuth(req.username)
    /\ sent' = <<req>>
    /\ http' = Some(h)
    /\ decodes' = DeleteDecodes(h)
    /\ reply' = ReqwestDeleteReturn(h)
    /\ result' = NoCall
    /\ UNCHANGED <<client, inflight>>

-----------------------------------------------------------------------------
(* Inputs: events, options and the results a transport can hand back *)

Opt(S) == {None} \cup {Some(x) : x \in S}

Statuses == 0..MaxStatus
StatusJson == {JNum(n) : n \in Statuses}

AbuseScoreJson(n) == JObj(("score" :> JNum(n)) @@ ("reasons" :> JArr(<<>>)))

\* values of the "scores" key: null, well-formed scores, and a score object
\* that lacks its mandatory fields
ScoresJson ==
    {JNull, JObj("payment_abuse" :> JObj(NoFields))}
        \cup {JObj("payment_abuse" :> AbuseScoreJson(n)) : n \in 1..MaxScore}

ObjectOf(st, msg, rest) ==
    JObj(Field("status", st) @@ Field("error_message", msg) @@ rest)

\* values of the "score_response" key
ScoreResponseJson ==
    {JNull} \cup
    {ObjectOf(st, msg, Field("scores", sc)) :
        st \in Opt(StatusJson), msg \in Opt({JStr("score message")}),
        sc \in Opt(ScoresJson)}

\* bodies the events API can answer with
EventBodies ==
    {JNull} \cup
    {ObjectOf(st, msg, Field("score_response", sr)) :
        st \in Opt(StatusJson), msg \in Opt({JStr("outer message")}),
        sr \in Opt(ScoreResponseJson)}

\* errors a transport can return
TransportErrors ==
    {ServerError("transport error"),
     RequestError(MaxStatus, "remote message"),
     ClientError("Forbidden", "Permission denied")}

\* Result<Option<Value>> over a set of bodies
PostResults(bodies) ==
    {Ok(None)} \cup {Ok(Some(b)) : b \in bodies} \cup {Err(e) : e \in TransportErrors}

Events ==
    {JObj(("$type" :> JStr("$login")) @@ ("$user_id" :> JStr("u1")))}

\* the default options, and options with overrides set
EventOptionsSet ==
    {DefaultEventOptions,
     [DefaultEventOptions EXCEPT
        !.return_score = Some(TRUE),
        !.abuse_types = Some(<<"PaymentAbuse">>),
        !.timeout = Some(5),
        !.api_key = Some("other key"),
        !.path = Some(<<"custom">>)]}

\* Result<Value> over a set of bodies
GetResults(bodies) ==
    {Ok(b) : b \in bodies} \cup {Err(e) : e \in TransportErrors}

\* Result<()>
DeleteResults == {Ok(Unit)} \cup {Err(e) : e \in TransportErrors}

\* user ids, as sequences of characters
UserIds == {<<"u", "1">>}

ScoreOptionsSet == {DefaultScoreOptions}

\* bodies the score API can answer with
ScoreBodies == ScoreResponseJson

LabelPropertiesSet ==
    {[description |-> None, is_fraud |-> TRUE, abuse_type |-> "PaymentAbuse",
      source |-> None, analyst |-> None]}

LabelOptionsSet == {DefaultLabelOptions}

\* timestamps range over 0..MaxMs milliseconds and over as many whole seconds
\* and a millisecond
MaxMs == 1
Millis == 0..MaxMs \cup {1001 * n : n \in 1..MaxMs}
\* values of a timestamp key: null, a negative number, milliseconds
TimeJson == {JNull, JNum(-1)} \cup {JNum(n) : n \in Millis}

\* bodies the verification API can answer send and resend with
SendBodies ==
    {JNull} \cup
    {ObjectOf(st, msg, Field("sent_at", t)) :
        st \in Opt(StatusJson), msg \in Opt({JStr("message")}), t \in Opt(TimeJson)}

\* bodies the verification API can answer check with
CheckBodies ==
    {JNull} \cup
    {ObjectOf(st, msg, Field("checked_at", t)) :
        st \in Opt(StatusJson), msg \in Opt({JStr("message")}), t \in Opt(TimeJson)}

\* serialized SendRequest and ResendRequest
SendRequests == {JObj(("$user_id" :> JStr(<<"u", "1">>)))}

Codes == {123456}
CheckOptionsSet == {DefaultCheckOptions}

WebhookIds == {1}

WebhookJson(id, status, name) ==
    JObj(("status" :> JStr(status))
         @@ Field("name", name)
         @@ [url |-> JStr("https://example.com/hook"),
             id |-> JNum(id), payload_type |-> JStr("ORDER_V1_0"),
             enabled_events |-> JArr(<<JStr("$create_order")>>),
             created |-> JNum(0), last_updated |-> JNum(MaxMs)])

WebhooksJson ==
    {WebhookJson(id, st, name) :
        id \in WebhookIds, st \in StatusNames, name \in Opt({JStr("hook")})}

RequestErrorJson(n) ==
    JObj([status |-> JNum(n), error_message |-> JStr("remote message")])
ClientErrorJson ==
    JObj([error |-> JStr("Forbidden"), description |-> JStr("Permission denied")])

\* a webhook, and a list of webhooks, that also carry the keys of Error::Client
WebhookWithErrorKeys ==
    LET webhook == WebhookJson(1, "ACTIVE", None).f
    IN  JObj(("status" :> webhook["status"])
             @@ [error |-> JStr("delivery failed"), description |-> JStr("a hook")]
             @@ webhook)
WebhooksWithErrorKeys ==
    JObj([error |-> JStr("partial"), description |-> JStr("one page"),
          data |-> JArr(<<WebhookJson(1, "ACTIVE", None)>>)])

\* bodies the webhooks API can answer with: error shapes, a webhook, a list
\* of webhooks, and values of no known shape
WebhookBodies ==
    {JNull, JStr("oops"), JObj(NoFields), ClientErrorJson,
     JObj([id |-> JNum(1)]), JObj([data |-> JArr(<<>>)]),
     WebhookWithErrorKeys, WebhooksWithErrorKeys}
        \cup {RequestErrorJson(n) : n \in Statuses}
        \cup WebhooksJson
        \cup {JObj([data |-> JArr(<<w>>)]) : w \in WebhooksJson}

WebhookRequests ==
    {[status |-> "Draft", description |-> None,
      name |-> None, url |-> "https://example.com/hook",
      payload_type |-> "OrderV10", enabled_events |-> <<"CreateOrder">>]}

Webhooks == {WebhookFromValue(w) : w \in WebhooksJson}

AccountIds == {"acct"}

\* what the network can do with a request
HttpStatuses == {200, 204, 404, 500}
RawBodies ==
    {[raw |-> "empty"], [raw |-> "text"]} \cup
    {[v |-> v, raw |-> "json"] :
        v \in {JNull, JStr("oops"), JObj(NoFields), ClientErrorJson,
               RequestErrorJson(MaxStatus)}}
HttpOutcomes ==
    {[failed |-> TRUE]} \cup
    {[status |-> st, body |-> b, json_content_type |-> ct, failed |-> FALSE] :
        st \in HttpStatuses, ct \in BOOLEAN, b \in RawBodies}

\* user ids without and with a character that urlencoding escapes
UserIdsToEncode == {<<"u", "1">>, <<"u", "/", "1">>}

\* score options with every combination of overrides unset and set
ScoreOptionsOverrides ==
    {[api_key |-> k, timeout |-> t, abuse_types |-> a, version |-> None,
      path_prefix |-> p, path_suffix |-> x] :
        a \in Opt({<<"PaymentAbuse">>}), k \in Opt({"other key"}),
        t \in Opt({5}), p \in Opt({"custom"}), x \in Opt({"latest"})}

\* a score response of status 0 with scores, and one of a non-zero status
FewScoreBodies ==
    {ObjectOf(Some(JNum(0)), Some(JStr("")),
              Field("scores", Some(JObj("payment_abuse" :> AbuseScoreJson(MaxScore))))),
     ObjectOf(Some(JNum(MaxStatus)), Some(JStr("score message")), NoFields)}

\* label properties and label options with fields unset and set
LabelPropertiesVaried ==
    {[description |-> d, is_fraud |-> f, abuse_type |-> "PromoAbuse",
      source |-> d, analyst |-> None] :
        f \in BOOLEAN, d \in Opt({"manual review"})}

LabelOptionsOverrides ==
    {[api_key |-> k, timeout |-> t, version |-> v] :
        t \in Opt({5}), k \in Opt({"other key"}), v \in Opt({"v205"})}

\* event responses: a success, a failure, and a success with scores
FewEventBodies ==
    {ObjectOf(Some(JNum(0)), Some(JStr("")), NoFields),
     ObjectOf(Some(JNum(MaxStatus)), Some(JStr("outer message")), NoFields),
     ObjectOf(Some(JNum(0)), Some(JStr("")),
              Field("score_response", Some(CHOOSE b \in FewScoreBodies :
                                                b.f["status"] = JNum(0))))}

\* check options with fields unset and set
CheckOptionsOverrides ==
    {[timeout |-> t, version |-> None, verified_event |-> e, verified_entity_id |-> i] :
        e \in Opt({"Login"}), i \in Opt({"session-1"}), t \in Opt({5})}

\* the bodies of CheckBodies, and successes with an empty error_message
CheckBodiesWithEmptyMessage ==
    CheckBodies \cup
    {ObjectOf(Some(JNum(0)), Some(JStr("")), Field("checked_at", Some(JNum(n)))) :
        n \in Millis}

\* a transport result without body and the error of a failed send
FewPostResults == {Ok(None), SendError}
FewGetResults == {Ok(JNull), SendError}

\* a reply without content, a reply with an error body, no reply, and no
\* reply within the timeout of the request
FewHttpOutcomes ==
    {[failed |-> TRUE], [failed |-> TRUE, timed_out |-> TRUE],
     [status |-> NO_CONTENT, body |-> [raw |-> "empty"], json_content_type |-> FALSE,
      failed |-> FALSE],
     [status |-> 404, body |-> [v |-> ClientErrorJson, raw |-> "json"], json_content_type |-> TRUE,
      failed |-> FALSE]}

\* abuse-type lists: empty, of one type, of several types in either order
AbuseTypeLists ==
    {<<>>, <<"PaymentAbuse">>, <<"PaymentAbuse", "PromoAbuse">>,
     <<"PromoAbuse", "PaymentAbuse">>,
     <<"AccountTakeover", "AccountAbuse", "ContentAbuse">>}

\* requests handed to a transport: the ones get_user_score, track and
\* rescore_user build
GetRequests ==
    {GetUserScoreRequest(user_id, [DefaultScoreOptions EXCEPT !.abuse_types = a]) :
        user_id \in {<<"u", "1">>}, a \in Opt(AbuseTypeLists)}
PostRequests ==
    {TrackRequest(event, options) : event \in Events, options \in EventOptionsSet}
    \cup
    {RescoreUserRequest(user_id, [DefaultScoreOptions EXCEPT !.abuse_types = a]) :
        user_id \in {<<"u", "1">>},
        a \in {Some(<<>>), Some(<<"PromoAbuse", "PaymentAbuse">>)}}

PutRequests ==
    {PutRequest(<<SIFT_ORIGIN, "v3", "accounts", "acct", "webhooks", 1>>,
                JObj(NoFields), DEFAULT_TIMEOUT, "key")}
DeleteRequests ==
    {DeleteRequest(<<SIFT_ORIGIN, "v3", "accounts", "acct", "webhooks", 1>>,
                   DEFAULT_TIMEOUT, "key")}

-----------------------------------------------------------------------------
(* Specifications *)

\* Client::new(api_key, http_client)
Init ==
    /\ api_key = "key"
    /\ account_id = None
    /\ origin = SIFT_ORIGIN
    /\ op = "none"
    /\ sent = <<>>
    /\ http = NoHttp
    /\ decodes = 0
    /\ reply = NoCall
    /\ result = NoCall
    /\ args = NoArgs
    /\ query = NoQuery
    /\ auth = NoAuth
    /\ inflight = [slot \in Slots |-> Idle]

\* track with any options
TrackCall ==
    \E event \in Events, options \in EventOptionsSet,
       r \in PostResults(EventBodies) : Track(event, options, r)

\* track with the default options
TrackDefaultCall ==
    \E event \in Events, r \in PostResults(EventBodies) :
        Track(event, DefaultEventOptions, r)

GetUserScoreCall ==
    \E user_id \in UserIds, opts \in ScoreOptionsSet, r \in GetResults(ScoreBodies) :
        GetUserScore(user_id, opts, r)

RescoreUserCall ==
    \E user_id \in UserIds, opts \in ScoreOptionsSet, r \in PostResults(ScoreBodies) :
        RescoreUser(user_id, opts, r)

LabelCall ==
    \E user_id \in UserIds, properties \in LabelPropertiesSet,
       opts \in LabelOptionsSet, r \in PostResults(EventBodies) :
        Label(user_id, properties, opts, r)

SendVerificationCall ==
    \E req \in SendRequests, r \in PostResults(SendBodies) : SendVerification(req, r)

ResendVerificationCall ==
    \E req \in SendRequests, r \in PostResults(SendBodies) : ResendVerification(req, r)

CheckVerificationCall ==
    \E user_id \in UserIds, code \in Codes, opts \in CheckOptionsSet,
       r \in PostResults(CheckBodies) : CheckVerification(user_id, code, opts, r)

CreateWebhookCall ==
    \E req \in WebhookRequests, r \in PostResults(WebhookBodies) : CreateWebhook(req, r)

GetWebhooksCall == \E r \in GetResults(WebhookBodies) : GetWebhooks(r)

GetWebhookCall ==
    \E id \in WebhookIds, r \in GetResults(WebhookBodies) : GetWebhook(id, r)

UpdateWebhookCall ==
    \E webhook \in Webhooks, r \in GetResults(WebhookBodies) : UpdateWebhook(webhook, r)

DeleteWebhookCall ==
    \E id \in WebhookIds, r \in DeleteResults : DeleteWebhook(id, r)

WithAccountIdCall == \E id \in AccountIds : WithAccountId(id)

AwcGetCall == \E req \in GetRequests, h \in HttpOutcomes : AwcGet(req, h)
ReqwestGetCall == \E req \in GetRequests, h \in HttpOutcomes : ReqwestGet(req, h)
AwcPostCall == \E req \in PostRequests, h \in HttpOutcomes : AwcPost(req, h)
ReqwestPostCall == \E req \in PostRequests, h \in HttpOutcomes : ReqwestPost(req, h)

AwcPutCall == \E req \in PutRequests, h \in HttpOutcomes : AwcPut(req, h)
ReqwestPutCall == \E req \in PutRequests, h \in HttpOutcomes : ReqwestPut(req, h)
AwcDeleteCall == \E req \in DeleteRequests, h \in HttpOutcomes : AwcDelete(req, h)
ReqwestDeleteCall ==
    \E req \in DeleteRequests, h \in HttpOutcomes : ReqwestDelete(req, h)

\* get_user_score and rescore_user with any overrides
GetUserScoreWithOptions ==
    \E user_id \in UserIdsToEncode, opts \in ScoreOptionsOverrides,
       r \in GetResults(FewScoreBodies) : GetUserScore(user_id, opts, r)

RescoreUserWithOptions ==
    \E user_id \in UserIdsToEncode, opts \in ScoreOptionsOverrides,
       r \in PostResults(FewScoreBodies) : RescoreUser(user_id, opts, r)

\* the score methods
NextScore ==
    \/ GetUserScoreWithOptions
    \/ RescoreUserWithOptions

SpecScore == Init /\ [][NextScore]_vars

\* label with any overrides
LabelWithOptions ==
    \E user_id \in UserIdsToEncode, properties \in LabelPropertiesVaried,
       opts \in LabelOptionsOverrides, r \in PostResults(FewEventBodies) :
        Label(user_id, properties, opts, r)

\* track called with what label hands to it
TrackLabelEvent ==
    \E user_id \in UserIdsToEncode, properties \in LabelPropertiesVaried,
       opts \in LabelOptionsOverrides, r \in PostResults(FewEventBodies) :
        Track(LabelEvent(properties), LabelEventOptions(opts, UrlEncode(user_id)), r)

\* label, and track on label events
NextLabel ==
    \/ LabelWithOptions
    \/ TrackLabelEvent

SpecLabel == Init /\ [][NextLabel]_vars

\* check_verification with any overrides
CheckVerificationWithOptions ==
    \E user_id \in UserIdsToEncode, code \in Codes, opts \in CheckOptionsOverrides,
       r \in PostResults(CheckBodiesWithEmptyMessage) :
        CheckVerification(user_id, code, opts, r)

\* the verification methods
NextVerification ==
    \/ SendVerificationCall
    \/ ResendVerificationCall
    \/ CheckVerificationWithOptions

SpecVerification == Init /\ [][NextVerification]_vars

\* requests with and without a basic-auth username, as track, get_user_score,
\* send_verification and get_webhooks build them
KeyedGetRequests ==
    {GetUserScoreRequest(<<"u", "1">>, DefaultScoreOptions),
     GetRequest(WebhooksUrl("acct"), DefaultQueryParams, DEFAULT_TIMEOUT,
                Some(api_key))}
KeyedPostRequests ==
    {TrackRequest(event, DefaultEventOptions) : event \in Events}
    \cup
    {PostRequest(<<origin, "v1", "verification", "send">>, None, Some(req),
                 DEFAULT_TIMEOUT, Some(api_key)) : req \in SendRequests}

\* every endpoint method with its overrides, and every transport method, on
\* few transport results: the requests and their credentials
NextAuth ==
    \/ WithAccountIdCall
    \/ \E event \in Events, options \in EventOptionsSet, r \in FewPostResults :
          Track(event, options, r)
    \/ \E user_id \in UserIdsToEncode, properties \in LabelPropertiesVaried,
          opts \in LabelOptionsOverrides, r \in FewPostResults :
          Label(user_id, properties, opts, r)
    \/ \E user_id \in UserIdsToEncode, opts \in ScoreOptionsOverrides,
          r \in FewGetResults : GetUserScore(user_id, opts, r)
    \/ \E user_id \in UserIdsToEncode, opts \in ScoreOptionsOverrides,
          r \in FewPostResults : RescoreUser(user_id, opts, r)
    \/ \E req \in SendRequests, r \in FewPostResults : SendVerification(req, r)
    \/ \E req \in SendRequests, r \in FewPostResults : ResendVerification(req, r)
    \/ \E user_id \in UserIdsToEncode, code \in Codes,
          opts \in CheckOptionsOverrides, r \in FewPostResults :
          CheckVerification(user_id, code, opts, r)
    \/ \E req \in WebhookRequests, r \in FewPostResults : CreateWebhook(req, r)
    \/ \E r \in FewGetResults : GetWebhooks(r)
    \/ \E id \in WebhookIds, r \in FewGetResults : GetWebhook(id, r)
    \/ \E webhook \in Webhooks, r \in FewGetResults : UpdateWebhook(webhook, r)
    \/ \E id \in WebhookIds, r \in DeleteResults : DeleteWebhook(id, r)
    \/ \E req \in KeyedGetRequests, h \in FewHttpOutcomes : AwcGet(req, h)
    \/ \E req \in KeyedGetRequests, h \in FewHttpOutcomes : ReqwestGet(req, h)
    \/ \E req \in KeyedPostRequests, h \in FewHttpOutcomes : AwcPost(req, h)
    \/ \E req \in KeyedPostRequests, h \in FewHttpOutcomes : ReqwestPost(req, h)
    \/ \E req \in PutRequests, h \in FewHttpOutcomes : AwcPut(req, h)
    \/ \E req \in PutRequests, h \in FewHttpOutcomes : ReqwestPut(req, h)
    \/ \E req \in DeleteRequests, h \in FewHttpOutcomes : AwcDelete(req, h)
    \/ \E req \in DeleteRequests, h \in FewHttpOutcomes : ReqwestDelete(req, h)

SpecAuth == Init /\ [][NextAuth]_vars

\* track alone
NextTrack == TrackCall

\* the webhook methods of a client with or without an account id
NextWebhooks ==
    \/ WithAccountIdCall
    \/ CreateWebhookCall
    \/ GetWebhooksCall
    \/ GetWebhookCall
    \/ UpdateWebhookCall
    \/ DeleteWebhookCall

SpecWebhooks == Init /\ [][NextWebhooks]_vars

\* the methods whose decoded response carries a status
NextStatus ==
    \/ GetUserScoreCall
    \/ RescoreUserCall
    \/ TrackDefaultCall
    \/ SendVerificationCall
    \/ ResendVerificationCall
    \/ CheckVerificationCall

SpecStatus == Init /\ [][NextStatus]_vars

\* the transport implementations
NextTransport ==
    \/ AwcGetCall
    \/ ReqwestGetCall
    \/ AwcPostCall
    \/ ReqwestPostCall
    \/ AwcPutCall
    \/ ReqwestPutCall
    \/ AwcDeleteCall
    \/ ReqwestDeleteCall

SpecTransport == Init /\ [][NextTransport]_vars

\* every endpoint method
Next ==
    \/ WithAccountIdCall
    \/ TrackDefaultCall
    \/ GetUserScoreCall
    \/ RescoreUserCall
    \/ LabelCall
    \/ SendVerificationCall
    \/ ResendVerificationCall
    \/ CheckVerificationCall
    \/ CreateWebhookCall
    \/ GetWebhooksCall
    \/ GetWebhookCall
    \/ UpdateWebhookCall
    \/ DeleteWebhookCall

Spec == Init /\ [][Next]_vars

SpecTrack == Init /\ [][NextTrack]_vars

\* webhooks with every combination of name, description, status and events
WebhooksVaried ==
    {[status |-> st, description |-> d, name |-> n, url |-> "https://example.com/hook",
      id |-> 1, payload_type |-> "OrderV10", enabled_events |-> ev,
      created |-> UNIX_EPOCH, last_updated |-> UNIX_EPOCH] :
        n \in Opt({"hook"}), d \in Opt({"a hook"}), st \in WebhookStatuses,
        ev \in {<<>>, <<"CreateOrder", "Chargeback">>}}

\* the remote's copy of a webhook it was sent: the keys it received, with the
\* id, created and last_updated it assigns
Echo(body, id, created, last_updated) ==
    JObj([body.f EXCEPT !["id"] = JNum(id)]
         @@ [created |-> created, last_updated |-> last_updated])

Echoes(webhook) ==
    {Echo(WebhookToValue(webhook), id, t[1], t[2]) :
        id \in {webhook.id, webhook.id + 1},
        t \in {<<JNum(0), JNum(MaxMs)>>, <<JNull, JNull>>}}

\* what the post and the put of either transport return, over all the network
\* can do
PostReplies ==
    {AwcPostReturn(h) : h \in HttpOutcomes} \cup {ReqwestPostReturn(h) : h \in HttpOutcomes}
PutReplies ==
    {AwcPutReturn(h) : h \in HttpOutcomes} \cup {ReqwestPutReturn(h) : h \in HttpOutcomes}

CreateWebhookOverTransport ==
    \E req \in WebhookRequests, r \in PostReplies : CreateWebhook(req, r)

UpdateWebhookOverTransport ==
    \E webhook \in WebhooksVaried, r \in PutReplies : UpdateWebhook(webhook, r)

UpdateWebhookEchoed ==
    \E webhook \in WebhooksVaried :
        \E v \in Echoes(webhook) : UpdateWebhook(webhook, Ok(v))

\* create_webhook and update_webhook on what the transports return and on
\* what the remote echoes
NextWebhookBodies ==
    \/ WithAccountIdCall
    \/ CreateWebhookOverTransport
    \/ UpdateWebhookOverTransport
    \/ UpdateWebhookEchoed

SpecWebhookBodies == Init /\ [][NextWebhookBodies]_vars

\* bodies no typed response decodes from, and the errors a transport returns
UndecodableBodies == {JNull, JObj(NoFields)}
ErrResults == {SendError} \cup {Err(e) : e \in TransportErrors}
FailingPostResults ==
    {Ok(None)} \cup {Ok(Some(b)) : b \in UndecodableBodies} \cup ErrResults
FailingGetResults == {Ok(b) : b \in UndecodableBodies} \cup ErrResults

\* every endpoint method on transport errors and undecodable bodies, and
\* every transport method on all the network can do
NextErrors ==
    \/ WithAccountIdCall
    \/ \E event \in Events, r \in FailingPostResults :
          Track(event, DefaultEventOptions, r)
    \/ \E user_id \in UserIds, properties \in LabelPropertiesSet,
          r \in FailingPostResults :
          Label(user_id, properties, DefaultLabelOptions, r)
    \/ \E user_id \in UserIds, r \in FailingGetResults :
          GetUserScore(user_id, DefaultScoreOptions, r)
    \/ \E user_id \in UserIds, r \in FailingPostResults :
          RescoreUser(user_id, DefaultScoreOptions, r)
    \/ \E req \in SendRequests, r \in FailingPostResults : SendVerification(req, r)
    \/ \E req \in SendRequests, r \in FailingPostResults : ResendVerification(req, r)
    \/ \E user_id \in UserIds, code \in Codes, r \in FailingPostResults :
          CheckVerification(user_id, code, DefaultCheckOptions, r)
    \/ \E req \in WebhookRequests, r \in FailingPostResults : CreateWebhook(req, r)
    \/ \E r \in FailingGetResults : GetWebhooks(r)
    \/ \E id \in WebhookIds, r \in FailingGetResults : GetWebhook(id, r)
    \/ \E webhook \in Webhooks, r \in FailingGetResults : UpdateWebhook(webhook, r)
    \/ \E id \in WebhookIds, r \in ErrResults \cup {Ok(Unit)} : DeleteWebhook(id, r)
    \/ \E h \in HttpOutcomes :
          AwcGet(GetUserScoreRequest(<<"u", "1">>, DefaultScoreOptions), h)
    \/ \E h \in HttpOutcomes :
          ReqwestGet(GetUserScoreRequest(<<"u", "1">>, DefaultScoreOptions), h)
    \/ \E event \in Events, h \in HttpOutcomes :
          AwcPost(TrackRequest(event, DefaultEventOptions), h)
    \/ \E event \in Events, h \in HttpOutcomes :
          ReqwestPost(TrackRequest(event, DefaultEventOptions), h)
    \/ \E req \in PutRequests, h \in HttpOutcomes : AwcPut(req, h)
    \/ \E req \in PutRequests, h \in HttpOutcomes : ReqwestPut(req, h)
    \/ \E req \in DeleteRequests, h \in HttpOutcomes : AwcDelete(req, h)
    \/ \E req \in DeleteRequests, h \in HttpOutcomes : ReqwestDelete(req, h)

SpecErrors == Init /\ [][NextErrors]_vars

\* what the remote answers a get_webhook and a track with
FewWebhookResults ==
    {Ok(WebhookJson(1, st, None)) : st \in StatusNames}
        \cup {Ok(ClientErrorJson), SendError}
FewTrackResults ==
    FewPostResults \cup {Ok(Some(b)) : b \in FewEventBodies}

\* calls of track and get_webhook by several callers, interleaved
NextConcurrent ==
    \/ \E id \in AccountIds : WithAccountIdUnborrowed(id)
    \/ \E slot \in Slots, event \in Events, options \in EventOptionsSet :
          BeginTrack(slot, event, options)
    \/ \E slot \in Slots, r \in FewTrackResults : CompleteTrack(slot, r)
    \/ \E slot \in Slots, id \in WebhookIds : BeginGetWebhook(slot, id)
    \/ \E slot \in Slots, r \in FewWebhookResults : CompleteGetWebhook(slot, r)
    \/ \E slot \in Slots : TakeResult(slot)

SpecConcurrent == Init /\ [][NextConcurrent]_vars

\* serialized events: without extra fields, with an extra field, and with an
\* extra field named $api_key
EventsWithExtra ==
    LET login == CHOOSE event \in Events : TRUE
    IN  {login,
         JObj(login.f @@ ("plan" :> JStr("pro"))),
         JObj(("$api_key" :> JStr("event key")) @@ login.f @@ ("plan" :> JStr("pro")))}

\* event options with the key, the version and the path unset and set
TrackOptionsVaried ==
    {[DefaultEventOptions EXCEPT !.api_key = k, !.version = v, !.path = p] :
        k \in Opt({"other key"}), v \in Opt({"v205"}), p \in Opt({<<"custom">>})}

Origins == {"http://localhost:8080"}

\* the origin is overridden while the client is built, before its first call
WithOriginCall == \E o \in Origins : op = "none" /\ WithOrigin(o)

TrackWithExtra ==
    \E event \in EventsWithExtra, options \in TrackOptionsVaried,
       r \in FewTrackResults : Track(event, options, r)

\* track on events with extra fields, of a client of any origin
NextTrackRequest ==
    \/ WithOriginCall
    \/ TrackWithExtra

SpecTrackRequest == Init /\ [][NextTrackRequest]_vars

\* the characters of user ids: two that urlencoding leaves alone, the dot,
\* and the ones that delimit the parts of a URL
IdChars == {"u", "1", ".", "/", "?", "#", "%", " "}

RECURSIVE StringsOf(_)
StringsOf(n) ==
    IF n = 0 THEN {<<>>}
    ELSE StringsOf(n - 1)
         \cup {Append(str, c) : str \in StringsOf(n - 1), c \in IdChars}

\* every user id of up to MaxIdLen characters
UserIdStrings == StringsOf(MaxIdLen)

\* the methods that put a user id into the URL, on any user id
NextEncode ==
    \/ \E user_id \in UserIdStrings :
          GetUserScore(user_id, DefaultScoreOptions, SendError)
    \/ \E user_id \in UserIdStrings :
          RescoreUser(user_id, DefaultScoreOptions, SendError)
    \/ \E user_id \in UserIdStrings, properties \in LabelPropertiesSet :
          Label(user_id, properties, DefaultLabelOptions, SendError)

SpecEncode == Init /\ [][NextEncode]_vars

ApiKeys == {"key", "other key", "third key"}

\* clients built with any key, account id and origin, and written with {:?}
NextDebug ==
    \/ \E key \in ApiKeys : New(key)
    \/ \E id \in AccountIds : WithAccountId(id)
    \/ \E o \in Origins : WithOrigin(o)
    \/ Fmt

SpecDebug == Init /\ [][NextDebug]_vars

-----------------------------------------------------------------------------
(* Properties of track *)

\* track ran and its transport handed back a body
TrackGotBody == op = "track" /\ reply.ok /\ reply.val # None

\* ... and the body decodes into an EventResponse
TrackDecoded == TrackGotBody /\ EventResponseOk(reply.val[1])

\* the nested score_response of the body carries a status other than 0
InnerNonZero ==
    /\ ~Missing(reply.val[1], "score_response")
    /\ reply.val[1].f["score_response"].f["status"].n # 0

OuterNonZero == reply.val[1].f["status"].n # 0

\* the nested score_response of the body carries scores (not null)
ScoresPopulated ==
    /\ ~Missing(reply.val[1], "score_response")
    /\ ~Missing(reply.val[1].f["score_response"], "scores")

InnerError ==
    RequestError(reply.val[1].f["score_response"].f["status"].n,
                 reply.val[1].f["score_response"].f["error_message"].s)

IsRequestError(res) == ~res.ok /\ res.err.kind = "Request"

\* C1: whenever the transport's post returns Ok(None), track returns Ok(None)
C1_NoBodyIsNoScore ==
    (op = "track" /\ reply.ok /\ reply.val = None) => result = Ok(None)

C1_Witness ==
    /\ op = "track" /\ reply.ok /\ reply.val = None
    /\ sent[1].query_params[1].return_score = Some(TRUE)
    /\ result.ok /\ result.val = None

C3_InnerPreferred ==
    (TrackDecoded /\ InnerNonZero /\ OuterNonZero /\ IsRequestError(result)) =>
        result = Err(InnerError)

\* C4: a decoded body with populated scores makes track return Ok(Some(scores))
\* with exactly the scores of the body, whatever the statuses are
C4_ScoresFirst ==
    (TrackDecoded /\ ScoresPopulated) =>
        /\ result = Ok(Some(ScoresFromValue(reply.val[1].f["score_response"].f["scores"])))
        /\ \A k \in ScoreKeys :
            LET sc == reply.val[1].f["score_response"].f["scores"]
            IN  IF Missing(sc, k) THEN result.val[1][k] = None
                ELSE result.val[1][k][1].score = sc.f[k].f["score"].n

C4_Witness ==
    /\ TrackDecoded /\ ScoresPopulated /\ InnerNonZero /\ OuterNonZero
    /\ result.ok /\ result.val # None
    /\ result.val[1]["payment_abuse"] # None

\* C5: a decoded body without populated scores makes track return
\* Err(Error::Request) exactly when the outer or the inner status is non-zero,
\* and Ok(None) otherwise
C5_StatusDecides ==
    (TrackDecoded /\ ~ScoresPopulated) =>
        IF OuterNonZero \/ InnerNonZero
        THEN IsRequestError(result)
        ELSE result = Ok(None)

C5_Witness ==
    /\ TrackDecoded /\ ~ScoresPopulated /\ ~OuterNonZero /\ InnerNonZero
    /\ IsRequestError(result)

-----------------------------------------------------------------------------
(* Properties of the webhook methods and of all endpoint methods *)

WebhookMethods ==
    {"create_webhook", "get_webhooks", "get_webhook", "update_webhook",
     "delete_webhook"}

EndpointMethods ==
    {"track", "get_user_score", "rescore_user", "label", "send_verification",
     "resend_verification", "check_verification"} \cup WebhookMethods

\* C6: a webhook method of a client without account id returns
\* Error::Server("account id not specified") and issues no transport call
C6_NoAccountNoCall ==
    (op \in WebhookMethods /\ account_id = None) =>
        /\ result = Err(ServerError("account id not specified"))
        /\ sent = <<>>

C6_Witness ==
    /\ op = "delete_webhook" /\ account_id = None
    /\ sent = <<>> /\ ~result.ok /\ result.err.kind = "Server"

\* C7: every endpoint method invokes the transport at most once per call,
\* whatever the outcome
C7_AtMostOneRequest ==
    op \in EndpointMethods => Len(sent) <= 1

C7_Witness ==
    op = "track" /\ ~reply.ok /\ ~result.ok /\ Len(sent) = 1

\* C8: for the methods whose decoded response carries a status, the call
\* returns Ok exactly when the remote status is 0
C8_OkIffStatusZero ==
    /\ (op = "get_user_score" /\ reply.ok /\ ScoreResponseOk(reply.val)) =>
            (result.ok <=> reply.val.f["status"].n = 0)
    /\ (op = "rescore_user" /\ reply.ok /\ reply.val # None
            /\ ScoreResponseOk(reply.val[1])) =>
            (result.ok <=> reply.val[1].f["status"].n = 0)
    /\ (op \in {"send_verification", "resend_verification"} /\ reply.ok
            /\ reply.val # None /\ SendResponseOk(reply.val[1])) =>
            (result.ok <=> reply.val[1].f["status"].n = 0)
    /\ (op = "check_verification" /\ reply.ok /\ reply.val # None
            /\ CheckResponseOk(reply.val[1])) =>
            (result.ok <=> reply.val[1].f["status"].n = 0)
    /\ TrackDecoded => (result.ok <=> (~OuterNonZero /\ ~InnerNonZero))

-----------------------------------------------------------------------------
(* Properties of the transport implementations *)

\* C9: get of awc and of reqwest returns Err whenever the remote replies with
\* a non-success HTTP status
C9_GetFailsOnHttpError ==
    (op \in {"awc::get", "reqwest::get"} /\ ~http[1].failed
        /\ ~IsSuccess(http[1].status)) => ~reply.ok

\* C10: post of awc and of reqwest returns Ok(None) exactly when the HTTP
\* status is 204, and then without any JSON decode of the body
C10_NoContentOnly ==
    op \in {"awc::post", "reqwest::post"} =>
        /\ (reply.ok /\ reply.val = None)
              <=> (~http[1].failed /\ http[1].status = NO_CONTENT)
        /\ (reply.ok /\ reply.val = None) => decodes = 0

C10_Witness ==
    /\ op = "reqwest::post" /\ ~http[1].failed /\ http[1].status = NO_CONTENT
    /\ http[1].body.raw = "text"
    /\ reply.ok /\ reply.val = None /\ decodes = 0

\* the reply body is JSON the transport's res.json() accepts
JsonReadable ==
    /\ http[1].body.raw = "json"
    /\ op \in {"awc::post", "awc::put", "awc::delete"} => http[1].json_content_type

\* C11: post, put and delete of both transports never return Ok for a
\* non-success HTTP status: they return the Error decoded from the body, or
\* Error::Server when the body does not decode; put at 204 decodes the body as
\* at any success status; delete at a success status returns unit without
\* decoding the body
C11_ErrorOnHttpFailure ==
    /\ (op \in {"awc::post", "reqwest::post", "awc::put", "reqwest::put",
                "awc::delete", "reqwest::delete"}
            /\ ~http[1].failed /\ ~IsSuccess(http[1].status)) =>
          /\ ~reply.ok
          /\ IF JsonReadable /\ ErrorOk(http[1].body.v)
             THEN reply.err = ErrorFromValue(http[1].body.v)
             ELSE reply.err.kind = "Server"
    /\ (op \in {"awc::put", "reqwest::put"} /\ ~http[1].failed
            /\ http[1].status = NO_CONTENT) =>
          /\ decodes = 1
          /\ IF JsonReadable THEN reply = Ok(http[1].body.v)
             ELSE ~reply.ok /\ reply.err.kind = "Server"
    /\ (op \in {"awc::delete", "reqwest::delete"} /\ ~http[1].failed
            /\ IsSuccess(http[1].status)) =>
          /\ reply = Ok(Unit)
          /\ decodes = 0

C11_Witness ==
    /\ op = "reqwest::put" /\ ~http[1].failed /\ http[1].status = 404
    /\ http[1].body.raw = "json" /\ http[1].body.v = ClientErrorJson
    /\ reply = Err(ClientError("Forbidden", "Permission denied"))

-----------------------------------------------------------------------------
(* Properties of the query a transport sends *)

TransportsWithQuery == {"awc::get", "reqwest::get", "awc::post", "reqwest::post"}

\* the abuse_types list of the QueryParams handed to the transport
AbuseTypesSent == sent[1].query_params[1].abuse_types

\* the values of the abuse_types entries of the query sent
AbuseTypesEntries ==
    [i \in {j \in DOMAIN query : query[j][1] = "abuse_types"} |-> query[i][2]]

\* the lowercase snake_case name of an abuse type
SnakeName(t) ==
    CASE t = "PaymentAbuse" -> "payment_abuse"
      [] t = "PromoAbuse" -> "promo_abuse"
      [] t = "AccountTakeover" -> "account_takeover"
      [] t = "AccountAbuse" -> "account_abuse"
      [] t = "ContentAbuse" -> "content_abuse"

\* the names of a non-empty list, a comma before every name but the first
RECURSIVE CommaSeparated(_, _)
CommaSeparated(list, n) ==
    IF n = 1 THEN SnakeName(list[1])
    ELSE CommaSeparated(list, n - 1) \o "," \o SnakeName(list[n])

\* C12: the abuse_types parameter is one string, the snake_case names joined
\* by commas in list order; with no list or an empty list the query has no
\* abuse_types entry
C12_CommaJoined ==
    (op \in TransportsWithQuery /\ sent[1].query_params # None) =>
        IF AbuseTypesSent = None \/ AbuseTypesSent = Some(<<>>)
        THEN DOMAIN AbuseTypesEntries = {}
        ELSE /\ DOMAIN AbuseTypesEntries # {}
             /\ \A i \in DOMAIN AbuseTypesEntries :
                    AbuseTypesEntries[i] =
                        CommaSeparated(AbuseTypesSent[1], Len(AbuseTypesSent[1]))
             /\ AbuseTypesSent = Some(<<"PaymentAbuse", "PromoAbuse">>) =>
                    \A i \in DOMAIN AbuseTypesEntries :
                        AbuseTypesEntries[i] = "payment_abuse,promo_abuse"

\* C13: a get with the abuse types [t] sends a query with exactly one
\* abuse_types entry, whose value is the name of t
C13_OneAbuseTypesEntry ==
    (op \in {"awc::get", "reqwest::get"} /\ AbuseTypesSent # None
        /\ Len(AbuseTypesSent[1]) = 1) =>
        /\ Cardinality(DOMAIN AbuseTypesEntries) = 1
        /\ \A i \in DOMAIN AbuseTypesEntries :
                AbuseTypesEntries[i] = SnakeName(AbuseTypesSent[1][1])

-----------------------------------------------------------------------------
(* Properties of get_user_score and rescore_user *)

ScoreMethods == {"get_user_score", "rescore_user"}

\* the percent-encoding of the user ids of the model
PercentEncoded(user_id) ==
    CASE user_id = <<"u", "1">> -> <<"u", "1">>
      [] user_id = <<"u", "/", "1">> -> <<"u", "%", "2", "F", "1">>

\* C14: the URL of a score call is {origin}/{version}/{prefix}/{percent-encoded
\* user id}/{suffix}, prefix being path_prefix or "users", suffix being
\* path_suffix or "score", each override on its own
C14_ScoreUrl ==
    op \in ScoreMethods =>
        sent[1].url =
            <<origin, "v205",
              IF args.opts.path_prefix = None THEN "users" ELSE args.opts.path_prefix[1],
              PercentEncoded(args.user_id),
              IF args.opts.path_suffix = None THEN "score" ELSE args.opts.path_suffix[1]>>

\* the api_key entries of the query the QueryParams of the call serialize to
ApiKeyEntries ==
    LET pairs == SerializeQuery(sent[1].query_params[1])
    IN  [i \in {j \in DOMAIN pairs : pairs[j][1] = "api_key"} |-> pairs[i][2]]

\* C15: the api_key query parameter of a score call is ScoreOptions.api_key
\* when set and the client's api_key when unset, and then neither missing nor
\* empty for a client whose key is not empty
C15_ApiKeyDefault ==
    op \in ScoreMethods =>
        /\ Cardinality(DOMAIN ApiKeyEntries) = 1
        /\ \A i \in DOMAIN ApiKeyEntries :
              /\ args.opts.api_key # None => ApiKeyEntries[i] = args.opts.api_key[1]
              /\ args.opts.api_key = None => ApiKeyEntries[i] = api_key
              /\ (args.opts.api_key = None /\ api_key # "") => ApiKeyEntries[i] # ""

C15_Witness ==
    /\ op = "get_user_score" /\ args.opts.api_key = None
    /\ sent[1].query_params[1].api_key = Some("key")
    /\ args.opts.abuse_types # None

\* C16: rescore_user issues a POST without body whose query parameters are the
\* ones get_user_score sends for the same arguments, and returns Error::Server
\* when its transport returns no body
C16_RescoreIsPost ==
    [][op' = "rescore_user" =>
          /\ sent'[1].method = "POST"
          /\ sent'[1].body = None
          /\ (op = "get_user_score" /\ args' = args) =>
                sent'[1].query_params = sent[1].query_params
          /\ (reply'.ok /\ reply'.val = None) =>
                (~result'.ok /\ result'.err.kind = "Server")]_vars

C16_Witness ==
    /\ op = "rescore_user" /\ reply.ok /\ reply.val = None
    /\ sent[1].method = "POST" /\ sent[1].body = None
    /\ sent[1].query_params[1].abuse_types = Some(<<"PaymentAbuse">>)
    /\ ~result.ok /\ result.err.kind = "Server"

-----------------------------------------------------------------------------
(* Properties of label *)

\* C17: label makes exactly the one POST track makes for the Label event of the
\* properties: to users/{percent-encoded user id}/labels, with the timeout,
\* api_key and version of the options and without query parameters; it returns
\* Ok(()) when that track returns Ok and track's error otherwise
C17_LabelIsTrack ==
    [][op' = "label" =>
          /\ Len(sent') = 1
          /\ sent'[1].method = "POST"
          /\ sent'[1].url =
                <<origin, "v205", <<"users", PercentEncoded(args'.user_id), "labels">>>>
          /\ sent'[1].timeout =
                (IF args'.opts.timeout = None THEN DEFAULT_TIMEOUT
                 ELSE args'.opts.timeout[1])
          /\ sent'[1].body[1].f["$api_key"] =
                JStr(IF args'.opts.api_key = None THEN api_key
                     ELSE args'.opts.api_key[1])
          /\ sent'[1].body[1].f["$type"] = JStr("$label")
          /\ sent'[1].body[1].f["$is_fraud"] = JBool(args'.properties.is_fraud)
          /\ sent'[1].username = None
          /\ SerializeQuery(sent'[1].query_params[1]) = <<>>
          /\ (op = "track" /\ args.event = LabelEvent(args'.properties)
                /\ args.options.path =
                      Some(<<"users", PercentEncoded(args'.user_id), "labels">>)
                /\ args.options.api_key = args'.opts.api_key
                /\ args.options.timeout = args'.opts.timeout
                /\ args.options.version = args'.opts.version
                /\ reply = reply') =>
                /\ sent' = sent
                /\ result.ok => result' = Ok(Unit)
                /\ ~result.ok => result' = result]_vars

C17_Witness ==
    /\ op = "label" /\ args.user_id = <<"u", "/", "1">>
    /\ args.opts.api_key # None /\ args.opts.timeout # None
    /\ reply.ok /\ reply.val # None /\ ~Missing(reply.val[1], "score_response")
    /\ result = Ok(Unit)

-----------------------------------------------------------------------------
(* Properties of the verification methods *)

SendMethods == {"send_verification", "resend_verification"}
VerificationMethods == SendMethods \cup {"check_verification"}

\* the transport handed back a body that decodes into the response type
VerificationDecoded ==
    /\ reply.val # None
    /\ IF op \in SendMethods THEN SendResponseOk(reply.val[1])
       ELSE CheckResponseOk(reply.val[1])

\* milliseconds since the epoch of a SystemTime
MillisSinceEpoch(t) == t.secs * 1000 + t.nanos \div 1000000

\* C18: once the transport returned Ok, a verification method returns
\* Error::Server for a missing body, Error::Request with the status and the
\* message of a decoded response of status # 0, Ok with the decoded response
\* of status 0, and nothing else
C18_VerificationOutcomes ==
    (op \in VerificationMethods /\ reply.ok) =>
        /\ reply.val = None => (~result.ok /\ result.err.kind = "Server")
        /\ (VerificationDecoded /\ reply.val[1].f["status"].n # 0) =>
              result = Err(RequestError(reply.val[1].f["status"].n,
                                        reply.val[1].f["error_message"].s))
        /\ (VerificationDecoded /\ reply.val[1].f["status"].n = 0) =>
              /\ result.ok
              /\ result.val.status = 0
              /\ result.val.error_message = reply.val[1].f["error_message"].s
              /\ (op = "check_verification" /\ reply.val[1].f["checked_at"] # JNull) =>
                    MillisSinceEpoch(result.val.checked_at)
                        = reply.val[1].f["checked_at"].n
              /\ (op \in SendMethods /\ reply.val[1].f["sent_at"] # JNull) =>
                    MillisSinceEpoch(result.val.sent_at[1])
                        = reply.val[1].f["sent_at"].n
        /\ result.ok => (VerificationDecoded /\ reply.val[1].f["status"].n = 0)
        /\ ~result.ok =>
              \/ result.err.kind = "Server"
              \/ /\ result.err.kind = "Request"
                 /\ VerificationDecoded /\ reply.val[1].f["status"].n # 0

C18_Witness ==
    /\ op = "resend_verification" /\ reply.ok /\ VerificationDecoded
    /\ reply.val[1].f["status"].n # 0
    /\ ~result.ok /\ result.err.kind = "Request"

\* C19: check_verification with default options, answered with the body
\* {"status":0,"error_message":"","checked_at":ms}, ms >= 0, returns Ok with
\* checked_at ms milliseconds after the epoch, and its request body carries the
\* $user_id and the $code of the arguments
C19_CheckedAt ==
    (op = "check_verification" /\ args.opts = DefaultCheckOptions) =>
        /\ sent[1].body[1].f["$user_id"] = JStr(args.user_id)
        /\ sent[1].body[1].f["$code"] = JNum(args.code)
        /\ \A ms \in Millis :
              reply = Ok(Some(JObj([status |-> JNum(0), error_message |-> JStr(""),
                                    checked_at |-> JNum(ms)]))) =>
                /\ result.ok
                /\ result.val.status = 0
                /\ result.val.error_message = ""
                /\ MillisSinceEpoch(result.val.checked_at) = ms
                /\ result.val.checked_at.nanos < 1000000000

C19_Witness ==
    /\ op = "check_verification" /\ args.opts = DefaultCheckOptions
    /\ args.user_id = <<"u", "/", "1">>
    /\ reply = Ok(Some(JObj([status |-> JNum(0), error_message |-> JStr(""),
                              checked_at |-> JNum(1001)])))
    /\ result.ok /\ result.val.checked_at = [secs |-> 1, nanos |-> 1000000]

-----------------------------------------------------------------------------
(* Properties of where the API key travels *)

TransportMethods ==
    {"awc::get", "reqwest::get", "awc::post", "reqwest::post", "awc::put",
     "reqwest::put", "awc::delete", "reqwest::delete"}

\* the keys of the query pairs the QueryParams of the request serialize to
QueryKeys ==
    IF sent[1].query_params = None THEN {}
    ELSE LET pairs == SerializeQuery(sent[1].query_params[1])
         IN  {pairs[i][1] : i \in DOMAIN pairs}

\* the keys of the JSON body of the request
BodyKeys == IF sent[1].body = None THEN {} ELSE DOMAIN sent[1].body[1].f

\* the key an event or score call is to carry: the override or the client's
KeyOf(options) == IF options.api_key = None THEN api_key ELSE options.api_key[1]

\* track and label carry the key as the body field $api_key and pass no username
EventCallsCarryKey ==
    op \in {"track", "label"} =>
        /\ sent[1].username = None
        /\ "$api_key" \in BodyKeys
        /\ sent[1].body[1].f["$api_key"] =
              JStr(KeyOf(IF op = "track" THEN args.options ELSE args.opts))
        /\ QueryKeys \cap {"api_key", "$api_key"} = {}

\* verification and webhook calls pass the client's key as the username and
\* carry no key field in body or query
BasicAuthCallsCarryNoKey ==
    (op \in VerificationMethods \cup WebhookMethods /\ sent # <<>>) =>
        /\ sent[1].username = Some(api_key)
        /\ BodyKeys \cap {"api_key", "$api_key"} = {}
        /\ QueryKeys \cap {"api_key", "$api_key"} = {}

\* a transport sets the username it is given with no password, and no
\* credentials when it is given none
TransportsSetUsername ==
    op \in TransportMethods =>
        IF sent[1].username = None THEN auth = None
        ELSE auth = Some([username |-> sent[1].username[1], password |-> None])

\* C20 as stated: event and score calls carry the key as a body or query field
\* named $api_key and pass no username; verification and webhook calls pass
\* the client's key as the basic-auth username, with an empty password, and
\* carry no key field
C20_Original ==
    /\ EventCallsCarryKey
    /\ op \in ScoreMethods =>
          /\ sent[1].username = None
          /\ "$api_key" \in BodyKeys \cup QueryKeys
    /\ BasicAuthCallsCarryNoKey
    /\ TransportsSetUsername

\* C20 amended: as stated, but the score calls carry the key as the query
\* field named api_key
C20_KeyPlacement ==
    /\ EventCallsCarryKey
    /\ op \in ScoreMethods =>
          /\ sent[1].username = None
          /\ "api_key" \in QueryKeys
          /\ "$api_key" \notin BodyKeys \cup QueryKeys
          /\ sent[1].query_params[1].api_key = Some(KeyOf(args.opts))
    /\ BasicAuthCallsCarryNoKey
    /\ TransportsSetUsername

C20_Witness ==
    /\ op = "update_webhook" /\ sent # <<>>
    /\ sent[1].username = Some("key") /\ sent[1].method = "PUT"
    /\ "$api_key" \notin BodyKeys

-----------------------------------------------------------------------------
(* Properties of the webhook reads *)

\* get_webhooks or get_webhook sent its request and the transport handed back
\* a body
WebhookReadGotBody ==
    op \in {"get_webhooks", "get_webhook"} /\ sent # <<>> /\ reply.ok

\* the body has the shape of the success variant of the method's response
SuccessShape ==
    IF op = "get_webhooks" THEN WebhooksDataOk(reply.val) ELSE WebhookOk(reply.val)

\* the data of a body of the success shape
DecodedData ==
    IF op = "get_webhooks"
    THEN [i \in DOMAIN reply.val.f["data"].a |->
             WebhookFromValue(reply.val.f["data"].a[i])]
    ELSE WebhookFromValue(reply.val)

IsServerError(res) == ~res.ok /\ res.err.kind = "Server"

\* C21 as stated: a body of the error shape gives Err with the decoded error, a
\* body of the success shape gives Ok with the decoded data, any other body
\* gives Error::Server
C21_Original ==
    WebhookReadGotBody =>
        /\ ErrorOk(reply.val) => result = Err(ErrorFromValue(reply.val))
        /\ SuccessShape => result = Ok(DecodedData)
        /\ (~ErrorOk(reply.val) /\ ~SuccessShape) => IsServerError(result)

\* C21 amended: a body of the error shape gives Err with the decoded error, a
\* body of the success shape that is not also of the error shape gives Ok with
\* the decoded data, any other body gives Error::Server
C21_BodyShapeDecides ==
    WebhookReadGotBody =>
        /\ ErrorOk(reply.val) => result = Err(ErrorFromValue(reply.val))
        /\ (SuccessShape /\ ~ErrorOk(reply.val)) => result = Ok(DecodedData)
        /\ (~ErrorOk(reply.val) /\ ~SuccessShape) => IsServerError(result)

C21_Witness ==
    /\ op = "get_webhook" /\ sent # <<>> /\ reply.ok
    /\ WebhookOk(reply.val) /\ ClientErrorShape(reply.val)
    /\ result = Err(ClientError("delivery failed", "a hook"))

-----------------------------------------------------------------------------
(* Properties of the webhook writes *)

\* the network's successful replies that carry no body
SuccessWithoutBody ==
    {h \in HttpOutcomes : ~h.failed /\ IsSuccess(h.status) /\ h.body.raw = "empty"}

\* C22: when the remote replies successfully without a body, create_webhook
\* and update_webhook return Error::Server, over either transport
C22_BodyRequired ==
    \A h \in SuccessWithoutBody :
        /\ (/\ op = "create_webhook" /\ sent # <<>>
            /\ reply \in {AwcPostReturn(h), ReqwestPostReturn(h)})
               => IsServerError(result)
        /\ (/\ op = "update_webhook" /\ sent # <<>>
            /\ reply \in {AwcPutReturn(h), ReqwestPutReturn(h)})
               => IsServerError(result)

C22_Witness ==
    /\ op = "create_webhook" /\ sent # <<>>
    /\ \E h \in SuccessWithoutBody : h.status = NO_CONTENT /\ reply = AwcPostReturn(h)
    /\ reply = Ok(None)
    /\ IsServerError(result)

C22_WitnessUpdate ==
    /\ op = "update_webhook" /\ sent # <<>>
    /\ \E h \in SuccessWithoutBody : h.status = NO_CONTENT /\ reply = ReqwestPutReturn(h)
    /\ IsServerError(result)

\* the keys of a webhook that the caller sets
CallerKeys ==
    {"name", "description", "payload_type", "status", "url", "enabled_events"}

\* update_webhook got back what it sent, with an id, created and last_updated
\* of the remote's
UpdateEchoed ==
    /\ op = "update_webhook" /\ sent # <<>> /\ reply.ok /\ IsObj(reply.val)
    /\ \A k \in CallerKeys :
          Has(reply.val, k) /\ reply.val.f[k] = sent[1].body[1].f[k]
    /\ Has(reply.val, "id") /\ IsNum(reply.val.f["id"]) /\ reply.val.f["id"].n >= 0
    /\ Has(reply.val, "created") /\ OptMsOk(reply.val.f["created"])
    /\ Has(reply.val, "last_updated") /\ OptMsOk(reply.val.f["last_updated"])

\* C23: the webhook update_webhook decodes from the echo of what it sent equals
\* the webhook it was given on name, description, payload_type, status, url
\* and enabled_events
C23_RoundTrip ==
    UpdateEchoed =>
        /\ result.ok
        /\ \A k \in CallerKeys : result.val[k] = args.webhook[k]

C23_Witness ==
    /\ UpdateEchoed /\ result.ok
    /\ args.webhook.name = None /\ args.webhook.description = Some("a hook")
    /\ args.webhook.status = "Active" /\ Len(args.webhook.enabled_events) = 2
    /\ result.val.description = Some("a hook")
    /\ result.val.id # args.webhook.id
    /\ result.val.last_updated # args.webhook.last_updated

-----------------------------------------------------------------------------
(* Properties of the timeouts *)

\* the timeout the caller configured for the call, for the methods whose
\* options have one
ConfiguredTimeout ==
    IF op = "track" THEN args.options.timeout
    ELSE IF op \in {"get_user_score", "rescore_user", "label", "check_verification"}
    THEN args.opts.timeout
    ELSE None

\* the network gave no reply within the timeout of the request
TimedOut == http # NoHttp /\ http[1].failed /\ "timed_out" \in DOMAIN http[1]

\* C24: every endpoint method passes the timeout the caller configured for the
\* call to the transport, and 2 seconds when none is configured; a time-out in
\* a transport comes back as Error::Server, which the endpoint methods return
C24_Timeouts ==
    /\ (op \in EndpointMethods /\ sent # <<>>) =>
          /\ Len(sent) = 1
          /\ sent[1].timeout = IF ConfiguredTimeout = None THEN 2
                               ELSE ConfiguredTimeout[1]
          /\ reply = SendError => (result = reply /\ IsServerError(result))
    /\ (op \in TransportMethods /\ TimedOut) => reply = SendError

C24_Witness ==
    /\ op = "track" /\ args.options.timeout = Some(5)
    /\ sent[1].timeout = 5
    /\ reply = SendError /\ IsServerError(result)

C24_WitnessTimedOut ==
    op = "awc::get" /\ TimedOut /\ sent[1].timeout = 2 /\ IsServerError(reply)

-----------------------------------------------------------------------------
(* Properties of the failures of the transport and of JSON decoding *)

\* the transport read the body of the reply as JSON
BodyRead ==
    /\ ~http[1].failed
    /\ op \in {"awc::post", "reqwest::post"} => http[1].status # NO_CONTENT
    /\ op \in {"awc::delete", "reqwest::delete"} => ~IsSuccess(http[1].status)

\* the transport handed the method a body its typed response does not decode
\* from
TypedDecodeFails ==
    /\ reply.ok
    /\ CASE op \in {"track", "label"} ->
                reply.val # None /\ ~EventResponseOk(reply.val[1])
         [] op = "get_user_score" -> ~ScoreResponseOk(reply.val)
         [] op = "rescore_user" ->
                reply.val # None /\ ~ScoreResponseOk(reply.val[1])
         [] op \in {"send_verification", "resend_verification"} ->
                reply.val # None /\ ~SendResponseOk(reply.val[1])
         [] op = "check_verification" ->
                reply.val # None /\ ~CheckResponseOk(reply.val[1])
         [] op = "create_webhook" -> reply.val # None /\ ~WebhookOk(reply.val[1])
         [] op = "get_webhooks" -> ~ErrorOk(reply.val) /\ ~WebhooksDataOk(reply.val)
         [] op \in {"get_webhook", "update_webhook"} ->
                ~ErrorOk(reply.val) /\ ~WebhookOk(reply.val)
         [] OTHER -> FALSE

\* C25: a failed send and a body the transport cannot read as JSON come back
\* from the transport as Error::Server; an endpoint method returns the
\* transport's error unchanged, and Error::Server when the body does not
\* decode into its typed response
C25_FailuresAreServerErrors ==
    /\ (op \in TransportMethods /\ http[1].failed) => IsServerError(reply)
    /\ (op \in TransportMethods /\ BodyRead /\ ~JsonReadable) => IsServerError(reply)
    /\ (op \in EndpointMethods /\ sent # <<>> /\ ~reply.ok) => result = reply
    /\ (op \in EndpointMethods /\ sent # <<>> /\ TypedDecodeFails) =>
          IsServerError(result)

C25_Witness ==
    /\ op = "reqwest::get" /\ BodyRead /\ http[1].status = 200
    /\ http[1].body.raw = "text"
    /\ IsServerError(reply)

C25_WitnessTyped ==
    /\ op = "check_verification" /\ TypedDecodeFails /\ reply.val = Some(JObj(NoFields))
    /\ result = Err(DecodeFailure)

-----------------------------------------------------------------------------
(* Properties of calls in progress together *)

\* the request and the result of the call when it runs alone: what the method
\* computes from the arguments, the fields of the client and the reply
AloneSent(call) ==
    IF call.op = "track"
    THEN <<TrackRequest(call.args.event, call.args.options)>>
    ELSE WebhookSent(GetRequest(WebhookUrl(RequireAccountId.val, call.args.id),
                                DefaultQueryParams, DEFAULT_TIMEOUT, Some(api_key)))

AloneResult(call) ==
    IF call.op = "track" THEN TrackReturn(call.reply)
    ELSE WebhookResult(WebhookResponseReturn(call.reply))

DoneCalls == {slot \in Slots : inflight[slot].phase = "done"}

\* every call that returned sent the request and returned the result of the
\* call run alone, and two get_webhook calls of the same id that got the same
\* reply returned equal webhooks
FunctionOfInputs ==
    /\ \A slot \in DoneCalls :
          /\ inflight[slot].sent = AloneSent(inflight[slot])
          /\ inflight[slot].result = AloneResult(inflight[slot])
    /\ \A one, other \in DoneCalls :
          (/\ inflight[one].op = "get_webhook" /\ inflight[other].op = "get_webhook"
           /\ inflight[one].args = inflight[other].args
           /\ inflight[one].reply = inflight[other].reply)
              => inflight[one].result = inflight[other].result

C26_WitnessInterleaved ==
    /\ inflight[1].phase = "done" /\ inflight[1].op = "track"
    /\ inflight[1].result = SendError
    /\ inflight[2].phase = "awaiting" /\ inflight[2].op = "get_webhook"

-----------------------------------------------------------------------------
(* Properties of the request of track *)

TrackSent == op = "track" /\ sent # <<>>

\* the API key of the call: the one of the options when set, else the client's
CallKey ==
    IF args.options.api_key = None THEN api_key ELSE args.options.api_key[1]

\* C27: track posts to {origin}/{version}/{path}, "v205" and "events" by
\* default, a body that holds $api_key with the key of the options when set
\* and the client's otherwise, and every other key of the event with the
\* event's value; a $api_key of the event itself is overwritten
C27_TrackRequest ==
    TrackSent =>
        /\ Len(sent) = 1 /\ sent[1].method = "POST"
        /\ sent[1].url =
              <<origin,
                IF args.options.version = None THEN "v205" ELSE args.options.version[1],
                IF args.options.path = None THEN <<"events">> ELSE args.options.path[1]>>
        /\ sent[1].body # None
        /\ DOMAIN sent[1].body[1].f = DOMAIN args.event.f \cup {"$api_key"}
        /\ sent[1].body[1].f["$api_key"] = JStr(CallKey)
        /\ \A k \in DOMAIN args.event.f \ {"$api_key"} :
              sent[1].body[1].f[k] = args.event.f[k]

C27_Witness ==
    /\ TrackSent /\ origin = "http://localhost:8080"
    /\ "$api_key" \in DOMAIN args.event.f
    /\ args.event.f["$api_key"] = JStr("event key")
    /\ args.options.api_key = None
    /\ sent[1].body[1].f["$api_key"] = JStr("key")
    /\ sent[1].body[1].f["plan"] = JStr("pro")
    /\ sent[1].url = <<"http://localhost:8080", "v205", <<"events">> >>

-----------------------------------------------------------------------------
(* Properties of the verification methods on error bodies *)

\* a verification method got a body that is an object with an integer status
\* other than 0 and a string error_message
VerificationErrorBody ==
    /\ op \in VerificationMethods /\ reply.ok /\ reply.val # None
    /\ Has(reply.val[1], "status") /\ IsNum(reply.val[1].f["status"])
    /\ reply.val[1].f["status"].n # 0
    /\ Has(reply.val[1], "error_message") /\ IsStr(reply.val[1].f["error_message"])

\* C28: on a body that is an object with an integer status other than 0 and a
\* string error_message, the verification methods return Error::Request with
\* that status and message, whether or not the body holds sent_at / checked_at
C28_ErrorBodies ==
    VerificationErrorBody =>
        result = Err(RequestError(reply.val[1].f["status"].n,
                                  reply.val[1].f["error_message"].s))

-----------------------------------------------------------------------------
(* Properties of the user id in the URL *)

\* the character a %XX stands for
HexChar(hi, lo) ==
    CASE hi = "2" /\ lo = "F" -> "/"
      [] hi = "2" /\ lo = "0" -> " "
      [] hi = "2" /\ lo = "5" -> "%"
      [] hi = "3" /\ lo = "F" -> "?"
      [] hi = "2" /\ lo = "3" -> "#"
      [] OTHER -> "invalid"

\* percent-decoding of a path segment
RECURSIVE PercentDecode(_)
PercentDecode(seg) ==
    IF seg = <<>> THEN <<>>
    ELSE IF Head(seg) = "%" /\ Len(seg) >= 3
    THEN <<HexChar(seg[2], seg[3])>> \o PercentDecode(SubSeq(seg, 4, Len(seg)))
    ELSE <<Head(seg)>> \o PercentDecode(Tail(seg))

\* the characters that end a path segment or the path
Delimiters == {"/", "?", "#"}

\* str is one path segment: it holds no delimiter, and every % in it starts
\* a %XX
OneSegment(seg) ==
    /\ \A i \in DOMAIN seg : seg[i] \notin Delimiters /\ seg[i] # " "
    /\ \A i \in DOMAIN seg :
          seg[i] = "%" => (i + 2 <= Len(seg) /\ HexChar(seg[i + 1], seg[i + 2]) # "invalid")

\* the parts of the URL sent: origin, version, prefix, the segment of the user
\* id, suffix
UrlParts ==
    IF op = "label"
    THEN <<sent[1].url[1], sent[1].url[2]>> \o sent[1].url[3]
    ELSE sent[1].url

\* C29: get_user_score, rescore_user and label send to
\* {origin}/{version}/{prefix}/{segment}/{suffix}, where the segment is one
\* path segment whose percent-decoding is the user id given
C29_UserIdSegment ==
    (op \in {"get_user_score", "rescore_user", "label"} /\ sent # <<>>) =>
        /\ Len(UrlParts) = 5
        /\ UrlParts[1] = origin /\ UrlParts[2] = "v205" /\ UrlParts[3] = "users"
        /\ UrlParts[5] = IF op = "label" THEN "labels" ELSE "score"
        /\ OneSegment(UrlParts[4])
        /\ PercentDecode(UrlParts[4]) = args.user_id

C29_Witness ==
    /\ op = "label" /\ sent # <<>>
    /\ args.user_id = <<"%", "/">>
    /\ UrlParts[4] = <<"%", "2", "5", "%", "2", "F">>
    /\ PercentDecode(UrlParts[4]) = <<"%", "/">>

-----------------------------------------------------------------------------
(* Properties of the Debug output of a Client *)

\* C30: the Debug output of a Client writes "****" for api_key, whatever the
\* key is, and the client's account_id and origin: it is the same for clients
\* that differ in api_key only
C30_DebugHidesKey ==
    op = "fmt" =>
        /\ result.name = "Client"
        /\ Len(result.fields) = 3
        /\ result.fields[1] = <<"api_key", "****">>
        /\ result.fields[1][2] # args.self.api_key
        /\ result.fields[2] = <<"account_id", args.self.account_id>>
        /\ result.fields[3] = <<"origin", args.self.origin>>

C30_Witness ==
    /\ op = "fmt" /\ args.self.api_key = "other key"
    /\ args.self.account_id = Some("acct")
    /\ args.self.origin = "http://localhost:8080"
    /\ result.fields[1] = <<"api_key", "****">>
    /\ result.fields[2] = <<"account_id", Some("acct")>>

=============================================================================
